---- MODULE Spec2Model ----
(***************************************************************************)
(* cpt.run core: the capture parser, the task store (Database), the task   *)
(* service (TasksService) and the view/filter engine, as a state machine.  *)
(*                                                                         *)
(* Text is a sequence of one-character strings.  Option<T> is a sequence   *)
(* of length 0 (None) or 1 (Some).  Result<T> is the same: <<>> is Err.    *)
(* Instants are minutes since 1970-01-01T00:00Z; the local zone is UTC.    *)
(***************************************************************************)
EXTENDS Integers, Sequences, FiniteSets, TLC

VARIABLES store, next_id, now, last, app

vars == <<store, next_id, now, last, app>>

(***************************************************************************)
(* Bounds of the model.                                                    *)
(***************************************************************************)
\* number of task ids the store hands out (inserts over a behaviour)
MaxTasks == 1
\* number of times the wall clock advances
MaxTicks == 1

(***************************************************************************)
(* Option / Result                                                         *)
(***************************************************************************)
None == <<>>

Some(x) == <<x>>

IsSome(o) == o # <<>>

IsNone(o) == o = <<>>

Unwrap(o) == o[1]

\* Option::or
OrElse(a, b) == IF IsSome(a) THEN a ELSE b

Err == <<>>

Ok(x) == <<x>>

IsOk(r) == r # <<>>

(***************************************************************************)
(* Text helpers (std::str)                                                 *)
(***************************************************************************)
Upper == <<"A","B","C","D","E","F","G","H","I","J","K","L","M",
           "N","O","P","Q","R","S","T","U","V","W","X","Y","Z">>

Lower == <<"a","b","c","d","e","f","g","h","i","j","k","l","m",
           "n","o","p","q","r","s","t","u","v","w","x","y","z">>

Digits == <<"0","1","2","3","4","5","6","7","8","9">>

\* the ASCII class [[:punct:]] (the grave accent is not in the model's alphabet)
Punct == {"!", "\"", "#", "$", "%", "&", "'", "(", ")", "*", "+", ",", "-",
          ".", "/", ":", ";", "<", "=", ">", "?", "@", "[", "\\", "]", "^",
          "_", "{", "|", "}", "~"}

Whitespace == {" ", "\t", "\n"}

LowerChar(c) ==
    IF \E i \in 1..26 : Upper[i] = c
    THEN Lower[CHOOSE i \in 1..26 : Upper[i] = c]
    ELSE c

to_ascii_lowercase(s) == [i \in 1..Len(s) |-> LowerChar(s[i])]

starts_with(s, p) == Len(s) >= Len(p) /\ SubSeq(s, 1, Len(p)) = p

ends_with(s, p) == Len(s) >= Len(p) /\ SubSeq(s, Len(s) - Len(p) + 1, Len(s)) = p

\* str::strip_prefix: Some(rest) or None
strip_prefix(s, p) ==
    IF starts_with(s, p) THEN Some(SubSeq(s, Len(p) + 1, Len(s))) ELSE None

RECURSIVE trim_start_matches(_, _)
trim_start_matches(s, cs) ==
    IF s # <<>> /\ s[1] \in cs THEN trim_start_matches(Tail(s), cs) ELSE s

RECURSIVE trim_end_matches(_, _)
trim_end_matches(s, cs) ==
    IF s # <<>> /\ s[Len(s)] \in cs
    THEN trim_end_matches(SubSeq(s, 1, Len(s) - 1), cs)
    ELSE s

trim_matches(s, cs) == trim_end_matches(trim_start_matches(s, cs), cs)

trim(s) == trim_matches(s, Whitespace)

\* [String]::join(sep)
RECURSIVE join(_, _)
join(words, sep) ==
    IF words = <<>> THEN <<>>
    ELSE IF Len(words) = 1 THEN words[1]
    ELSE words[1] \o sep \o join(Tail(words), sep)

\* str::split_whitespace, collected: the maximal runs of non-whitespace
RECURSIVE split_ws(_, _, _)
split_ws(s, cur, acc) ==
    IF s = <<>> THEN (IF cur = <<>> THEN acc ELSE Append(acc, cur))
    ELSE IF s[1] \in Whitespace
         THEN split_ws(Tail(s), <<>>, IF cur = <<>> THEN acc ELSE Append(acc, cur))
         ELSE split_ws(Tail(s), Append(cur, s[1]), acc)

split_whitespace(s) == split_ws(s, <<>>, <<>>)

DigitVal(c) == (CHOOSE i \in 1..10 : Digits[i] = c) - 1

IsDigit(c) == \E i \in 1..10 : Digits[i] = c

AllDigits(s) == \A i \in 1..Len(s) : IsDigit(s[i])

RECURSIVE DigitsValue(_, _)
DigitsValue(s, acc) ==
    IF s = <<>> THEN acc ELSE DigitsValue(Tail(s), acc * 10 + DigitVal(s[1]))

\* a lenient parse that reads anything that is not a number as zero
parse_unsigned_lenient(s, max) ==
    LET body == IF s # <<>> /\ s[1] = "+" THEN Tail(s) ELSE s
    IN IF body = <<>> \/ ~AllDigits(body) THEN Ok(0)
       ELSE IF DigitsValue(body, 0) > max THEN Err
       ELSE Ok(DigitsValue(body, 0))

\* <unsigned>::from_str: an optional '+', then one or more digits, at most max
parse_unsigned(s, max) ==
    LET body == IF s # <<>> /\ s[1] = "+" THEN Tail(s) ELSE s
    IN IF body = <<>> \/ ~AllDigits(body) THEN Err
       ELSE IF DigitsValue(body, 0) > max THEN Err
       ELSE Ok(DigitsValue(body, 0))

\* <signed>::from_str: an optional sign, then one or more digits
parse_signed(s) ==
    LET neg  == s # <<>> /\ s[1] = "-"
        body == IF s # <<>> /\ s[1] \in {"+", "-"} THEN Tail(s) ELSE s
    IN IF body = <<>> \/ ~AllDigits(body) THEN Err
       ELSE Ok(IF neg THEN 0 - DigitsValue(body, 0) ELSE DigitsValue(body, 0))

(***************************************************************************)
(* Calendar (chrono): proleptic Gregorian days <-> civil date              *)
(***************************************************************************)
MinutesPerDay == 24 * 60

days_from_civil(y0, m, d) ==
    LET y   == IF m <= 2 THEN y0 - 1 ELSE y0
        era == y \div 400
        yoe == y - era * 400
        doy == (153 * (IF m > 2 THEN m - 3 ELSE m + 9) + 2) \div 5 + d - 1
        doe == yoe * 365 + yoe \div 4 - yoe \div 100 + doy
    IN era * 146097 + doe - 719468

civil_from_days(z0) ==
    LET z   == z0 + 719468
        era == z \div 146097
        doe == z - era * 146097
        yoe == (doe - doe \div 1460 + doe \div 36524 - doe \div 146096) \div 365
        doy == doe - (365 * yoe + yoe \div 4 - yoe \div 100)
        mp  == (5 * doy + 2) \div 153
        d   == doy - (153 * mp + 2) \div 5 + 1
        m   == IF mp < 10 THEN mp + 3 ELSE mp - 9
        y   == yoe + era * 400 + (IF m <= 2 THEN 1 ELSE 0)
    IN [year |-> y, month |-> m, day |-> d]

is_leap(y) == (y % 4 = 0 /\ y % 100 # 0) \/ y % 400 = 0

days_in_month(y, m) ==
    IF m = 2 THEN (IF is_leap(y) THEN 29 ELSE 28)
    ELSE IF m \in {4, 6, 9, 11} THEN 30 ELSE 31

\* DateTime::date_naive, as a day number
date_naive(t) == t \div MinutesPerDay

\* Datelike::weekday().num_days_from_monday(); 1970-01-01 was a Thursday
num_days_from_monday(day) == (day + 3) % 7

\* date.and_hms_opt(9, 0, 0), resolved in the local zone and converted to UTC
at_nine(day) == day * MinutesPerDay + 9 * 60

\* DateTime + Months: the same day of the month, clamped to the month's end
add_months(t, n) ==
    LET c    == civil_from_days(date_naive(t))
        idx  == c.year * 12 + (c.month - 1) + n
        y    == idx \div 12
        m    == (idx % 12) + 1
        dim  == days_in_month(y, m)
        d    == IF c.day > dim THEN dim ELSE c.day
    IN days_from_civil(y, m, d) * MinutesPerDay + (t % MinutesPerDay)

\* str::split(sep), collected
RECURSIVE split_on(_, _, _, _)
split_on(s, sep, cur, acc) ==
    IF s = <<>> THEN Append(acc, cur)
    ELSE IF s[1] = sep THEN split_on(Tail(s), sep, <<>>, Append(acc, cur))
    ELSE split_on(Tail(s), sep, Append(cur, s[1]), acc)

NumField(s, maxlen) == s # <<>> /\ Len(s) <= maxlen /\ AllDigits(s)

\* NaiveDate::parse_from_str(_, "%Y-%m-%d"): Ok(day number) or Err
parse_naive_date(s) ==
    LET parts == split_on(s, "-", <<>>, <<>>)
    IN IF Len(parts) # 3 THEN Err
       ELSE IF ~(NumField(parts[1], 4) /\ NumField(parts[2], 2) /\ NumField(parts[3], 2))
       THEN Err
       ELSE LET y == DigitsValue(parts[1], 0)
                m == DigitsValue(parts[2], 0)
                d == DigitsValue(parts[3], 0)
            IN IF m \in 1..12 /\ d >= 1 /\ d <= days_in_month(y, m)
               THEN Ok(days_from_civil(y, m, d)) ELSE Err

\* NaiveTime::parse_from_str(_, "%H:%M"): Ok(minute of the day) or Err
parse_naive_time(s) ==
    LET parts == split_on(s, ":", <<>>, <<>>)
    IN IF Len(parts) # 2 THEN Err
       ELSE IF ~(NumField(parts[1], 2) /\ NumField(parts[2], 2)) THEN Err
       ELSE LET h == DigitsValue(parts[1], 0)
                m == DigitsValue(parts[2], 0)
            IN IF h <= 23 /\ m <= 59 THEN Ok(h * 60 + m) ELSE Err

\* DateTime::parse_from_rfc3339, for the form YYYY-MM-DDTHH:MM:SSZ
parse_from_rfc3339(s) ==
    LET parts == split_on(s, "T", <<>>, <<>>)
    IN IF Len(parts) # 2 \/ ~ends_with(parts[2], <<"Z">>) THEN Err
       ELSE LET date == parse_naive_date(parts[1])
                hms  == split_on(SubSeq(parts[2], 1, Len(parts[2]) - 1), ":", <<>>, <<>>)
            IN IF ~IsOk(date) \/ Len(parts[1]) # 10 \/ Len(hms) # 3 THEN Err
               ELSE IF \E i \in 1..3 : ~(Len(hms[i]) = 2 /\ AllDigits(hms[i])) THEN Err
               ELSE LET h  == DigitsValue(hms[1], 0)
                        mi == DigitsValue(hms[2], 0)
                        sc == DigitsValue(hms[3], 0)
                    IN IF h <= 23 /\ mi <= 59 /\ sc <= 59
                       THEN Ok(Unwrap(date) * MinutesPerDay + h * 60 + mi)
                       ELSE Err

parse_weekday(label) ==
    IF label \in {<<"m","o","n">>, <<"m","o","n","d","a","y">>} THEN Some(0)
    ELSE IF label \in {<<"t","u","e">>, <<"t","u","e","s","d","a","y">>} THEN Some(1)
    ELSE IF label \in {<<"w","e","d">>, <<"w","e","d","n","e","s","d","a","y">>} THEN Some(2)
    ELSE IF label \in {<<"t","h","u">>, <<"t","h","u","r","s","d","a","y">>} THEN Some(3)
    ELSE IF label \in {<<"f","r","i">>, <<"f","r","i","d","a","y">>} THEN Some(4)
    ELSE IF label \in {<<"s","a","t">>, <<"s","a","t","u","r","d","a","y">>} THEN Some(5)
    ELSE IF label \in {<<"s","u","n">>, <<"s","u","n","d","a","y">>} THEN Some(6)
    ELSE None

parse_relative_spec(spec, now_local) ==
    IF Len(spec) < 3 THEN Err
    ELSE LET number_part == SubSeq(spec, 2, Len(spec) - 1)
             unit        == spec[Len(spec)]
             value       == parse_signed(number_part)
         IN IF ~IsOk(value) THEN Err
            ELSE IF unit = "d" THEN Ok(now_local + Unwrap(value) * MinutesPerDay)
            ELSE IF unit = "w" THEN Ok(now_local + Unwrap(value) * 7 * MinutesPerDay)
            ELSE IF unit = "m"
                 THEN (IF Unwrap(value) < 0 THEN Err
                       ELSE Ok(add_months(now_local, Unwrap(value))))
            ELSE Err

\* a resolver that takes today's weekday name as today
parse_date_spec_same_day(spec, now_local) ==
    LET trimmed == trim(spec)
        lower   == to_ascii_lowercase(trimmed)
        today   == date_naive(now_local)
        weekday == parse_weekday(lower)
    IN IF trimmed = <<>> THEN Err
       ELSE IF lower = <<"n","o","w">> THEN Ok(now_local)
       ELSE IF lower = <<"t","o","d","a","y">> THEN Ok(at_nine(today))
       ELSE IF lower = <<"t","o","m","o","r","r","o","w">> THEN Ok(at_nine(today + 1))
       ELSE IF starts_with(lower, <<"+">>) THEN parse_relative_spec(lower, now_local)
       ELSE IF IsSome(weekday)
            THEN LET diff == (Unwrap(weekday) - num_days_from_monday(today)) % 7
                 IN Ok(at_nine(date_naive(now_local + diff * MinutesPerDay)))
       ELSE IF IsOk(parse_from_rfc3339(trimmed)) THEN parse_from_rfc3339(trimmed)
       ELSE IF IsOk(parse_naive_date(trimmed))
            THEN Ok(at_nine(Unwrap(parse_naive_date(trimmed))))
       ELSE IF IsOk(parse_naive_time(trimmed))
            THEN Ok(today * MinutesPerDay + Unwrap(parse_naive_time(trimmed)))
       ELSE Err

parse_date_spec(spec, now_local) ==
    LET trimmed == trim(spec)
        lower   == to_ascii_lowercase(trimmed)
        today   == date_naive(now_local)
        weekday == parse_weekday(lower)
    IN IF trimmed = <<>> THEN Err
       ELSE IF lower = <<"n","o","w">> THEN Ok(now_local)
       ELSE IF lower = <<"t","o","d","a","y">> THEN Ok(at_nine(today))
       ELSE IF lower = <<"t","o","m","o","r","r","o","w">> THEN Ok(at_nine(today + 1))
       ELSE IF starts_with(lower, <<"+">>) THEN parse_relative_spec(lower, now_local)
       ELSE IF IsSome(weekday)
            THEN LET diff       == (Unwrap(weekday) - num_days_from_monday(today)) % 7
                     days_ahead == IF diff = 0 THEN 7 ELSE diff
                 IN Ok(at_nine(date_naive(now_local + days_ahead * MinutesPerDay)))
       ELSE IF IsOk(parse_from_rfc3339(trimmed)) THEN parse_from_rfc3339(trimmed)
       ELSE IF IsOk(parse_naive_date(trimmed))
            THEN Ok(at_nine(Unwrap(parse_naive_date(trimmed))))
       ELSE IF IsOk(parse_naive_time(trimmed))
            THEN Ok(today * MinutesPerDay + Unwrap(parse_naive_time(trimmed)))
       ELSE Err

(***************************************************************************)
(* Capture parser (parser.rs)                                              *)
(***************************************************************************)
\* byte order of the characters the model's texts are written in
Ascii == <<"\t", "\n", " ", "!", "\"", "#", "$", "%", "&", "'", "(", ")", "*", "+",
           ",", "-", ".", "/">> \o Digits \o <<":", ";", "<", "=", ">", "?", "@">>
         \o Upper \o <<"[", "\\", "]", "^", "_">> \o Lower \o <<"{", "|", "}", "~">>

Ord(c) == CHOOSE i \in 1..Len(Ascii) : Ascii[i] = c

\* String's Ord: lexicographic on bytes
RECURSIVE str_lt(_, _)
str_lt(a, b) ==
    IF b = <<>> THEN FALSE
    ELSE IF a = <<>> THEN TRUE
    ELSE IF a[1] = b[1] THEN str_lt(Tail(a), Tail(b))
    ELSE Ord(a[1]) < Ord(b[1])

RECURSIVE insert_sorted(_, _)
insert_sorted(sorted, x) ==
    IF sorted = <<>> THEN <<x>>
    ELSE IF str_lt(x, sorted[1]) THEN <<x>> \o sorted
    ELSE <<sorted[1]>> \o insert_sorted(Tail(sorted), x)

\* Vec<String>::sort
RECURSIVE sort(_)
sort(v) == IF v = <<>> THEN <<>> ELSE insert_sorted(sort(Tail(v)), v[1])

\* Vec::dedup: drops consecutive repeats
RECURSIVE dedup(_)
dedup(v) ==
    IF Len(v) <= 1 THEN v
    ELSE IF v[1] = v[2] THEN dedup(Tail(v))
    ELSE <<v[1]>> \o dedup(Tail(v))

Range(v) == {v[i] : i \in 1..Len(v)}

\* EnergyLevel::from_str
parse_energy(label) ==
    LET l == to_ascii_lowercase(label)
    IN IF l = <<"l","o","w">> THEN Ok("low")
       ELSE IF l \in {<<"m","e","d">>, <<"m","e","d","i","u","m">>} THEN Ok("med")
       ELSE IF l = <<"h","i","g","h">> THEN Ok("high")
       ELSE Err

U8Max == 255

\* u32::from_str; every number of up to nine digits fits a u32, and the model's
\* texts hold no longer ones
parse_u32(s) ==
    LET body == IF s # <<>> /\ s[1] = "+" THEN Tail(s) ELSE s
    IN IF body = <<>> \/ ~AllDigits(body) \/ Len(body) > 9 THEN Err
       ELSE Ok(DigitsValue(body, 0))

Min(a, b) == IF a < b THEN a ELSE b

normalize_label(value) == to_ascii_lowercase(trim_start_matches(trim(value), {"@", "#"}))

RECURSIVE normalize_labels(_)
normalize_labels(values) ==
    IF values = <<>> THEN <<>>
    ELSE LET v == normalize_label(values[1])
         IN (IF v = <<>> THEN <<>> ELSE <<v>>) \o normalize_labels(Tail(values))

RECURSIVE merge_lists(_, _)
merge_lists(primary, secondary) ==
    IF secondary = <<>> THEN primary
    ELSE merge_lists(IF secondary[1] \in Range(primary) THEN primary
                     ELSE Append(primary, secondary[1]),
                     Tail(secondary))

parse_duration_minutes(spec0) ==
    LET spec == to_ascii_lowercase(trim(spec0))
        head == SubSeq(spec, 1, Len(spec) - 1)
    IN IF ends_with(spec, <<"m">>) THEN parse_u32(head)
       ELSE IF ends_with(spec, <<"h">>)
            THEN (IF IsOk(parse_u32(head)) THEN Ok(Unwrap(parse_u32(head)) * 60) ELSE Err)
       ELSE parse_u32(spec)

\* the regex [[:punct:]]+$ : <<token, Option(trailing)>>
strip_trailing_punctuation(input) ==
    LET token == trim_end_matches(input, Punct)
    IN IF Len(token) = Len(input) THEN <<input, None>>
       ELSE <<token, Some(SubSeq(input, Len(token) + 1, Len(input)))>>

clean_title(value) == trim(trim_matches(value, {",", ";", "."}))

push_trailing(words, trailing) ==
    IF words # <<>>
    THEN [words EXCEPT ![Len(words)] = @ \o trailing]
    ELSE <<trailing>>

\* InlineTokens::default(), with the local waiting_since_token
InlineDefault ==
    [title_words |-> <<>>, project |-> None, contexts |-> <<>>, tags |-> <<>>,
     due_at |-> None, defer_until |-> None, time_estimate |-> None,
     energy |-> None, priority |-> None, waiting_on |-> None,
     waiting_since |-> None, waiting_since_token |-> None]

\* the trailing punctuation of a directive token goes back to the title
with_trailing(r, trailing) ==
    IF IsSome(trailing)
    THEN [r EXCEPT !.title_words = push_trailing(@, Unwrap(trailing))]
    ELSE r

\* the token dispatch of the loop of parse_inline_tokens, on a piece already
\* split from its trailing punctuation: Ok(result) or Err
inline_token(result, raw_piece, piece, trailing, now_local) ==
    LET due      == strip_prefix(piece, <<"d","u","e",":">>)
        defer    == strip_prefix(piece, <<"d","e","f","e","r",":">>)
        t        == strip_prefix(piece, <<"t",":">>)
        e        == strip_prefix(piece, <<"e",":">>)
        p        == strip_prefix(piece, <<"p",":">>)
        wait     == strip_prefix(piece, <<"w","a","i","t",":">>)
        since    == strip_prefix(piece, <<"s","i","n","c","e",":">>)
    IN IF starts_with(piece, <<"@">>) /\ Len(piece) > 1
       THEN Ok(with_trailing(
               [result EXCEPT !.contexts =
                   Append(@, normalize_label(trim_start_matches(piece, {"@"})))],
               trailing))
       ELSE IF starts_with(piece, <<"+">>) /\ Len(piece) > 1
       THEN Ok(with_trailing(
               [result EXCEPT !.project =
                   Some(clean_title(trim_start_matches(piece, {"+"})))],
               trailing))
       ELSE IF starts_with(piece, <<"#">>) /\ Len(piece) > 1
       THEN Ok(with_trailing(
               [result EXCEPT !.tags =
                   Append(@, normalize_label(trim_start_matches(piece, {"#"})))],
               trailing))
       ELSE IF IsSome(due)
       THEN (IF IsOk(parse_date_spec(Unwrap(due), now_local))
             THEN Ok(with_trailing(
                     [result EXCEPT !.due_at = parse_date_spec(Unwrap(due), now_local)],
                     trailing))
             ELSE Err)
       ELSE IF IsSome(defer)
       THEN (IF IsOk(parse_date_spec(Unwrap(defer), now_local))
             THEN Ok(with_trailing(
                     [result EXCEPT !.defer_until =
                         parse_date_spec(Unwrap(defer), now_local)],
                     trailing))
             ELSE Err)
       ELSE IF IsSome(t)
       THEN (IF IsOk(parse_duration_minutes(Unwrap(t)))
             THEN Ok(with_trailing(
                     [result EXCEPT !.time_estimate = parse_duration_minutes(Unwrap(t))],
                     trailing))
             ELSE Err)
       ELSE IF IsSome(e)
       THEN (IF IsOk(parse_energy(Unwrap(e)))
             THEN Ok(with_trailing(
                     [result EXCEPT !.energy = parse_energy(Unwrap(e))], trailing))
             ELSE Err)
       ELSE IF IsSome(p)
       THEN (IF IsOk(parse_unsigned(Unwrap(p), U8Max))
             THEN Ok(with_trailing(
                     [result EXCEPT !.priority =
                         Some(Min(Unwrap(parse_unsigned(Unwrap(p), U8Max)), 3))],
                     trailing))
             ELSE Err)
       ELSE IF IsSome(wait)
       THEN Ok(with_trailing(
               IF Unwrap(wait) # <<>>
               THEN [result EXCEPT !.waiting_on = Some(clean_title(Unwrap(wait)))]
               ELSE result,
               trailing))
       ELSE IF IsSome(since)
       THEN (IF IsOk(parse_date_spec(Unwrap(since), now_local))
             THEN Ok(with_trailing(
                     [result EXCEPT !.waiting_since_token =
                         parse_date_spec(Unwrap(since), now_local)],
                     trailing))
             ELSE Err)
       ELSE Ok([result EXCEPT !.title_words = Append(@, raw_piece)])

\* the piece and its trailing punctuation, handed to the dispatch
inline_split(result, raw_piece, st, now_local) ==
    inline_token(result, raw_piece, st[1], st[2], now_local)

\* one iteration of the loop of parse_inline_tokens; an earlier error is kept (`?`)
inline_step(r, raw_piece, now_local) ==
    IF IsOk(r)
    THEN inline_split(Unwrap(r), raw_piece, strip_trailing_punctuation(raw_piece),
                      now_local)
    ELSE Err

\* the loop of parse_inline_tokens over the pieces, from left to right
RECURSIVE inline_loop(_, _, _)
inline_loop(r, pieces, now_local) ==
    IF pieces = <<>> THEN r
    ELSE inline_loop(inline_step(r, pieces[1], now_local), Tail(pieces), now_local)

\* after the loop: waiting_since falls back to the since: token
inline_finish(r) ==
    IF ~IsOk(r) THEN Err
    ELSE Ok(IF IsNone(Unwrap(r).waiting_since)
            THEN [Unwrap(r) EXCEPT !.waiting_since = Unwrap(r).waiting_since_token]
            ELSE Unwrap(r))

parse_inline_tokens(text, now_local) ==
    inline_finish(inline_loop(Ok(InlineDefault), split_whitespace(text), now_local))

(***************************************************************************)
(* model.rs                                                                *)
(***************************************************************************)
Statuses == {"inbox", "next", "waiting", "scheduled", "someday", "done", "canceled"}

\* TaskStatus::default_for_waiting
default_for_waiting(waiting_fields_present) ==
    IF waiting_fields_present THEN "waiting" ELSE "inbox"

\* Option<String>::map(|s| s.trim().to_string())
map_trim(o) == IF IsSome(o) THEN Some(trim(Unwrap(o))) ELSE None

\* a structured date field wins over the inline one: Ok(Option) or Err
resolve_date(field, inline, now_local) ==
    IF IsSome(field)
    THEN (IF IsOk(parse_date_spec(Unwrap(field), now_local))
          THEN Ok(parse_date_spec(Unwrap(field), now_local)) ELSE Err)
    ELSE Ok(inline)

\* a structured energy label wins over the inline one: Ok(Option) or Err
resolve_energy(field, inline) ==
    IF IsSome(field)
    THEN (IF IsOk(parse_energy(Unwrap(field))) THEN Ok(parse_energy(Unwrap(field)))
          ELSE Err)
    ELSE Ok(inline)

\* a fallback that keeps the blanks around the text
resolve_title_untrimmed(words, raw_text) == IF words = <<>> THEN raw_text ELSE words

\* the title: the joined title words, or the whole text when there are none
resolve_title(words, raw_text) == IF words = <<>> THEN trim(raw_text) ELSE words

\* the NewTask parse_capture returns once every field is resolved: the `?` of
\* the energy and date fields, then the empty-title check
new_task(input, inline, energy, due_at, defer_until, waiting_on, waiting_since, title) ==
    IF ~IsOk(energy) \/ ~IsOk(due_at) \/ ~IsOk(defer_until) \/ ~IsOk(waiting_since)
    THEN Err
    ELSE IF title = <<>> THEN Err
    ELSE Ok([title |-> title,
             notes |-> input.notes,
             status |-> IF IsSome(input.status) THEN Unwrap(input.status)
                        ELSE default_for_waiting(IsSome(waiting_on)),
             project |-> OrElse(map_trim(input.project), inline.project),
             areas |-> dedup(sort(normalize_labels(input.areas))),
             contexts |-> dedup(sort(merge_lists(inline.contexts,
                                                 normalize_labels(input.contexts)))),
             tags |-> dedup(sort(merge_lists(inline.tags, normalize_labels(input.tags)))),
             priority |-> IF IsSome(input.priority) THEN Min(Unwrap(input.priority), 3)
                          ELSE IF IsSome(inline.priority) THEN Unwrap(inline.priority)
                          ELSE 0,
             energy |-> Unwrap(energy),
             time_estimate |-> OrElse(input.time_estimate, inline.time_estimate),
             due_at |-> Unwrap(due_at),
             defer_until |-> Unwrap(defer_until),
             repeat |-> None,
             waiting_on |-> waiting_on,
             waiting_since |-> Unwrap(waiting_since)])

\* a merge that takes the title from the whole text
merge_fields_whole_text(input, raw_text, inline, now_local) ==
    new_task(input, inline,
             resolve_energy(input.energy, inline.energy),
             resolve_date(input.due_at, inline.due_at, now_local),
             resolve_date(input.defer_until, inline.defer_until, now_local),
             OrElse(map_trim(input.waiting_on), inline.waiting_on),
             resolve_date(input.waiting_since, inline.waiting_since, now_local),
             resolve_title(trim(raw_text), raw_text))

\* the fields of the input merged with the inline tokens
merge_fields(input, raw_text, inline, now_local) ==
    new_task(input, inline,
             resolve_energy(input.energy, inline.energy),
             resolve_date(input.due_at, inline.due_at, now_local),
             resolve_date(input.defer_until, inline.defer_until, now_local),
             OrElse(map_trim(input.waiting_on), inline.waiting_on),
             resolve_date(input.waiting_since, inline.waiting_since, now_local),
             resolve_title(trim(join(inline.title_words, <<" ">>)), raw_text))

\* parse_capture after the inline tokens were parsed: Ok(NewTask) or Err
merge_capture(input, raw_text, parsed, now_local) ==
    IF ~IsOk(parsed) THEN Err
    ELSE merge_fields(input, raw_text, Unwrap(parsed), now_local)

\* the inline tokens of the joined text, handed to the merge with the fields
parse_joined(input, raw_text, now_local) ==
    merge_capture(input, raw_text, parse_inline_tokens(raw_text, now_local), now_local)

\* parser::parse_capture: Ok(NewTask) or Err
parse_capture(input, now_local) == parse_joined(input, join(input.text, <<" ">>), now_local)

\* a conversion that resets the status to the default
NewTaskFrom_default_status(task) ==
    [title |-> task.title, notes |-> task.notes, status |-> "inbox",
     project |-> task.project, areas |-> task.areas, contexts |-> task.contexts,
     tags |-> task.tags, priority |-> task.priority, energy |-> task.energy,
     time_estimate |-> task.time_estimate, due_at |-> task.due_at,
     defer_until |-> task.defer_until, repeat |-> task.repeat,
     waiting_on |-> task.waiting_on, waiting_since |-> task.waiting_since]

\* impl From<&Task> for NewTask
NewTaskFrom(task) ==
    [title |-> task.title, notes |-> task.notes, status |-> task.status,
     project |-> task.project, areas |-> task.areas, contexts |-> task.contexts,
     tags |-> task.tags, priority |-> task.priority, energy |-> task.energy,
     time_estimate |-> task.time_estimate, due_at |-> task.due_at,
     defer_until |-> task.defer_until, repeat |-> task.repeat,
     waiting_on |-> task.waiting_on, waiting_since |-> task.waiting_since]

(***************************************************************************)
(* Database (database.rs): the tasks table is a function id -> row         *)
(***************************************************************************)
Present(rows, id) == id \in DOMAIN rows

\* Database::fetch_task
fetch_task(rows, id) == IF Present(rows, id) THEN Some(rows[id]) ELSE None

\* Database::insert_task
insert_task(rows, id, data, t) ==
    [i \in DOMAIN rows \cup {id} |->
        IF i = id
        THEN [title |-> data.title, notes |-> data.notes, status |-> data.status,
              project |-> data.project, areas |-> data.areas,
              contexts |-> data.contexts, tags |-> data.tags,
              priority |-> data.priority, energy |-> data.energy,
              time_estimate |-> data.time_estimate, due_at |-> data.due_at,
              defer_until |-> data.defer_until, repeat |-> data.repeat,
              created_at |-> t, updated_at |-> t, completed_at |-> None,
              waiting_on |-> data.waiting_on, waiting_since |-> data.waiting_since]
        ELSE rows[i]]

\* an update_status that treats Done and Canceled as terminal
update_status_guarded(rows, ids, status, completed_at, t) ==
    [i \in DOMAIN rows |->
        IF i \in ids /\ rows[i].status \notin {"done", "canceled"}
        THEN [rows[i] EXCEPT !.status = status,
                             !.completed_at = completed_at,
                             !.updated_at = t]
        ELSE rows[i]]

\* an update_status that leaves updated_at alone
update_status_unstamped(rows, ids, status, completed_at, t) ==
    [i \in DOMAIN rows |->
        IF i \in ids
        THEN [rows[i] EXCEPT !.status = status, !.completed_at = completed_at]
        ELSE rows[i]]

\* Database::update_status: one UPDATE ... WHERE id = :id per id
update_status(rows, ids, status, completed_at, t) ==
    [i \in DOMAIN rows |->
        IF i \in ids
        THEN [rows[i] EXCEPT !.status = status,
                             !.completed_at = completed_at,
                             !.updated_at = t]
        ELSE rows[i]]

\* Database::mark_done
mark_done(rows, ids, t) == update_status(rows, ids, "done", Some(t), t)

\* Database::mark_next
mark_next(rows, ids, t) == update_status(rows, ids, "next", None, t)

\* Database::mark_someday
mark_someday(rows, ids, t) == update_status(rows, ids, "someday", None, t)

\* Database::mark_inbox
mark_inbox(rows, ids, t) == update_status(rows, ids, "inbox", None, t)

\* Database::delete_tasks
delete_tasks(rows, ids) == [i \in DOMAIN rows \ ids |-> rows[i]]

\* completed_at that survives a move out of Done
completed_at_never_cleared(existing, updated, t) ==
    IF updated.status = "done" THEN OrElse(existing.completed_at, Some(t))
    ELSE existing.completed_at

\* the completed_at Database::update_task writes
resolve_completed_at(existing, updated, t) ==
    IF updated.status = "done" THEN OrElse(existing.completed_at, Some(t)) ELSE None

\* Database::update_task; the row is left alone when the id is unknown
update_task(rows, id, updated, t) ==
    IF ~Present(rows, id) THEN rows
    ELSE LET existing     == rows[id]
             completed_at == resolve_completed_at(existing, updated, t)
         IN [rows EXCEPT ![id] =
               [title |-> updated.title,
                notes |-> OrElse(updated.notes, existing.notes),
                status |-> updated.status,
                project |-> updated.project,
                areas |-> IF updated.areas = <<>> THEN existing.areas ELSE updated.areas,
                contexts |-> updated.contexts,
                tags |-> updated.tags,
                priority |-> updated.priority,
                energy |-> updated.energy,
                time_estimate |-> updated.time_estimate,
                due_at |-> updated.due_at,
                defer_until |-> updated.defer_until,
                repeat |-> OrElse(updated.repeat, existing.repeat),
                created_at |-> existing.created_at,
                updated_at |-> t,
                completed_at |-> completed_at,
                waiting_on |-> updated.waiting_on,
                waiting_since |-> updated.waiting_since]]

(***************************************************************************)
(* TasksService (services/tasks.rs)                                        *)
(***************************************************************************)
\* normalize_list: trimmed, empty dropped, first of each ASCII-case-insensitive key
RECURSIVE normalize_list_from(_, _, _)
normalize_list_from(tokens, seen, result) ==
    IF tokens = <<>> THEN result
    ELSE LET trimmed == trim(tokens[1])
             key     == to_ascii_lowercase(trimmed)
         IN IF trimmed = <<>> THEN normalize_list_from(Tail(tokens), seen, result)
            ELSE IF key \in seen THEN normalize_list_from(Tail(tokens), seen, result)
            ELSE normalize_list_from(Tail(tokens), seen \cup {key},
                                     Append(result, trimmed))

normalize_list(tokens) == normalize_list_from(tokens, {}, <<>>)

\* a defer that schedules the task whatever its status
defer_status_any(status, defer_until) ==
    IF IsSome(defer_until) THEN "scheduled" ELSE status

\* the status TasksService::defer_until writes
defer_status(status, defer_until) ==
    IF status \in {"inbox", "next"} /\ IsSome(defer_until) THEN "scheduled" ELSE status

\* TasksService::defer_until
svc_defer_until(rows, id, defer_until, t) ==
    IF ~Present(rows, id) THEN rows
    ELSE LET task    == rows[id]
             status  == defer_status(task.status, defer_until)
             updated == [NewTaskFrom(task) EXCEPT !.defer_until = defer_until,
                                                  !.status = status]
         IN update_task(rows, id, updated, t)

\* TasksService::rename_task
rename_task(rows, id, title, t) ==
    IF ~Present(rows, id) THEN rows
    ELSE update_task(rows, id, [NewTaskFrom(rows[id]) EXCEPT !.title = title], t)

\* TasksService::update_project
update_project(rows, id, project, t) ==
    IF ~Present(rows, id) THEN rows
    ELSE LET value == IF IsSome(project) /\ trim(Unwrap(project)) # <<>>
                      THEN Some(trim(Unwrap(project))) ELSE None
         IN update_task(rows, id, [NewTaskFrom(rows[id]) EXCEPT !.project = value], t)

\* TasksService::update_contexts
update_contexts(rows, id, contexts, t) ==
    IF ~Present(rows, id) THEN rows
    ELSE update_task(rows, id,
                     [NewTaskFrom(rows[id]) EXCEPT !.contexts = normalize_list(contexts)],
                     t)

\* TasksService::update_tags
update_tags(rows, id, tags, t) ==
    IF ~Present(rows, id) THEN rows
    ELSE update_task(rows, id,
                     [NewTaskFrom(rows[id]) EXCEPT !.tags = normalize_list(tags)], t)

\* TasksService::update_priority
update_priority(rows, id, priority, t) ==
    IF ~Present(rows, id) THEN rows
    ELSE update_task(rows, id,
                     [NewTaskFrom(rows[id]) EXCEPT !.priority = Min(priority, 3)], t)

(***************************************************************************)
(* View / filter engine (model.rs, database.rs)                            *)
(***************************************************************************)
Views == {"inbox", "next", "waiting", "scheduled", "someday", "projects", "done"}

\* ListView::to_status
to_status(view) == IF view = "projects" THEN None ELSE Some(view)

\* a status default without the Scheduled override
view_status_plain(view) == IF IsSome(view) THEN to_status(Unwrap(view)) ELSE None

\* the status filter ListFilters::for_view sets
view_status(view) ==
    LET status == IF IsSome(view) THEN to_status(Unwrap(view)) ELSE None
    IN IF view = Some("scheduled") THEN None ELSE status

\* a sort default that falls back to Due for every view it does not name
view_sort_due_fallback(view) ==
    IF view = Some("someday") THEN "priority"
    ELSE IF view \in {Some("inbox"), Some("waiting")} THEN "created"
    ELSE "due"

\* the sort field ListFilters::for_view sets
view_sort(view) ==
    IF view \in {Some("next"), Some("scheduled")} THEN "due"
    ELSE IF view = Some("someday") THEN "priority"
    ELSE IF view \in {Some("inbox"), Some("waiting")} THEN "created"
    ELSE IF view \in {Some("projects"), Some("done")} THEN "created"
    ELSE "due"

\* ListFilters::for_view; view is an Option
for_view(view) ==
    LET status  == view_status(view)
        sort_by == view_sort(view)
    IN [view |-> view, status |-> status, project |-> None, contexts |-> <<>>,
        tags |-> <<>>, due_before |-> None, defer_after |-> None,
        time_max |-> None, energy |-> None, priority_min |-> None,
        include_done |-> (view = Some("done")), sort |-> sort_by, reverse |-> FALSE]

RECURSIVE quote_all(_)
quote_all(list) ==
    IF list = <<>> THEN <<>>
    ELSE <<(<<"\"">> \o list[1] \o <<"\"">>)>> \o quote_all(Tail(list))

\* serde_json::to_string of a Vec<String> (texts without quotes or backslashes)
to_json(list) == <<"[">> \o join(quote_all(list), <<",">>) \o <<"]">>

\* SQL instr(hay, needle) > 0
instr(hay, needle) ==
    \E i \in 1..(Len(hay) - Len(needle) + 1) :
        SubSeq(hay, i, i + Len(needle) - 1) = needle

\* a status clause that hides Done only
status_clause_done_only(row, filters) ==
    IF IsSome(filters.status) THEN row.status = Unwrap(filters.status)
    ELSE IF ~filters.include_done THEN row.status # "done"
    ELSE TRUE

\* the status clause of the WHERE clause
status_clause(row, filters) ==
    IF IsSome(filters.status) THEN row.status = Unwrap(filters.status)
    ELSE IF ~filters.include_done THEN row.status \notin {"done", "canceled"}
    ELSE TRUE

\* the WHERE clause fetch_tasks builds, evaluated on one row
where_clause(row, filters) ==
    /\ status_clause(row, filters)
    /\ filters.view = Some("scheduled") =>
          \/ row.status = "scheduled"
          \/ /\ row.status \in {"inbox", "next"}
             /\ (IsSome(row.due_at) \/ IsSome(row.defer_until))
    /\ IsSome(filters.project) => row.project = filters.project
    /\ \A i \in 1..Len(filters.contexts) :
          instr(to_json(row.contexts), <<"\"">> \o filters.contexts[i] \o <<"\"">>)
    /\ \A i \in 1..Len(filters.tags) :
          instr(to_json(row.tags), <<"\"">> \o filters.tags[i] \o <<"\"">>)
    /\ IsSome(filters.due_before) =>
          IsSome(row.due_at) /\ Unwrap(row.due_at) <= Unwrap(filters.due_before)
    /\ IsSome(filters.defer_after) =>
          IsSome(row.defer_until) /\ Unwrap(row.defer_until) >= Unwrap(filters.defer_after)
    /\ IsSome(filters.time_max) =>
          IsNone(row.time_estimate) \/ Unwrap(row.time_estimate) <= Unwrap(filters.time_max)
    /\ IsSome(filters.energy) => row.energy = filters.energy
    /\ IsSome(filters.priority_min) => row.priority >= Unwrap(filters.priority_min)

\* the ids of the rows Database::fetch_tasks returns (any view but Projects)
fetch_tasks_ids(rows, filters) == {id \in DOMAIN rows : where_clause(rows[id], filters)}

\* a rank in the order the statuses are declared in TaskStatus
status_rank_declared(status) ==
    IF status = "inbox" THEN 0
    ELSE IF status = "next" THEN 1
    ELSE IF status = "waiting" THEN 2
    ELSE IF status = "scheduled" THEN 3
    ELSE IF status = "someday" THEN 4
    ELSE 5

\* CASE status WHEN 'next' THEN 0 ... ELSE 5 END
status_rank(status) ==
    IF status = "next" THEN 0
    ELSE IF status = "scheduled" THEN 1
    ELSE IF status = "waiting" THEN 2
    ELSE IF status = "inbox" THEN 3
    ELSE IF status = "someday" THEN 4
    ELSE 5

Key(name, desc) == [key |-> name, desc |-> desc]

\* an ORDER BY that ignores the reverse flag
build_order_clause_forward(filters) ==
    IF filters.sort = "due"
    THEN IF IsNone(filters.view)
         THEN <<Key("status_rank", FALSE), Key("due_is_null", FALSE),
                Key("due_at", FALSE), Key("priority", TRUE),
                Key("created_at", FALSE)>>
         ELSE <<Key("due_is_null", FALSE), Key("due_at", FALSE),
                Key("priority", TRUE), Key("time_estimate", FALSE),
                Key("created_at", FALSE)>>
    ELSE IF filters.sort = "priority"
    THEN <<Key("priority", TRUE), Key("due_at", FALSE), Key("created_at", FALSE)>>
    ELSE <<Key("created_at", FALSE)>>

\* build_order_clause: the ORDER BY terms, in order
build_order_clause(filters) ==
    IF filters.sort = "due"
    THEN IF IsNone(filters.view)
         THEN IF filters.reverse
              THEN <<Key("status_rank", TRUE), Key("due_is_null", TRUE),
                     Key("due_at", TRUE), Key("priority", FALSE),
                     Key("created_at", TRUE)>>
              ELSE <<Key("status_rank", FALSE), Key("due_is_null", FALSE),
                     Key("due_at", FALSE), Key("priority", TRUE),
                     Key("created_at", FALSE)>>
         ELSE IF filters.reverse
              THEN <<Key("due_is_null", TRUE), Key("due_at", TRUE),
                     Key("priority", FALSE), Key("time_estimate", TRUE),
                     Key("created_at", TRUE)>>
              ELSE <<Key("due_is_null", FALSE), Key("due_at", FALSE),
                     Key("priority", TRUE), Key("time_estimate", FALSE),
                     Key("created_at", FALSE)>>
    ELSE IF filters.sort = "priority"
    THEN IF filters.reverse
         THEN <<Key("priority", FALSE), Key("due_at", TRUE), Key("created_at", TRUE)>>
         ELSE <<Key("priority", TRUE), Key("due_at", FALSE), Key("created_at", FALSE)>>
    ELSE IF filters.reverse THEN <<Key("created_at", TRUE)>>
         ELSE <<Key("created_at", FALSE)>>

\* SQLite orders NULL before every value
NullKey == -1

\* the value of one ORDER BY term on a row
key_value(row, key) ==
    IF key = "status_rank" THEN status_rank(row.status)
    ELSE IF key = "due_is_null" THEN (IF IsNone(row.due_at) THEN 1 ELSE 0)
    ELSE IF key = "due_at" THEN (IF IsNone(row.due_at) THEN NullKey ELSE Unwrap(row.due_at))
    ELSE IF key = "priority" THEN row.priority
    ELSE IF key = "time_estimate"
         THEN (IF IsNone(row.time_estimate) THEN NullKey ELSE Unwrap(row.time_estimate))
    ELSE row.created_at

\* row a sorts strictly before row b under the ORDER BY terms
RECURSIVE sorts_before(_, _, _)
sorts_before(a, b, keys) ==
    IF keys = <<>> THEN FALSE
    ELSE LET va == key_value(a, keys[1].key)
             vb == key_value(b, keys[1].key)
         IN IF va = vb THEN sorts_before(a, b, Tail(keys))
            ELSE IF keys[1].desc THEN va > vb ELSE va < vb

\* the sequences over a set of ids, each id once
Orderings(ids) ==
    {seq \in [1..Cardinality(ids) -> ids] : \A i, j \in 1..Cardinality(ids) :
        i # j => seq[i] # seq[j]}

\* Database::fetch_tasks for a task view: the row orders the query may return
\* (rows that tie on every ORDER BY term come in either order)
fetch_tasks(rows, filters) ==
    {seq \in Orderings(fetch_tasks_ids(rows, filters)) :
        \A i, j \in 1..Len(seq) :
            i < j => ~sorts_before(rows[seq[j]], rows[seq[i]], build_order_clause(filters))}

\* the least text of a non-empty set
least(texts) == CHOOSE x \in texts : \A y \in texts : x = y \/ str_lt(x, y)

RECURSIVE sorted_texts(_)
sorted_texts(texts) ==
    IF texts = {} THEN <<>>
    ELSE <<least(texts)>> \o sorted_texts(texts \ {least(texts)})

\* a WHERE clause that keeps the rows with an empty project
project_clause_not_null(row, filters) ==
    /\ IsSome(row.project)
    /\ IsSome(filters.status) => row.status = Unwrap(filters.status)

\* WHERE project IS NOT NULL AND project <> '' [AND status = ?]
project_clause(row, filters) ==
    /\ IsSome(row.project)
    /\ Unwrap(row.project) # <<>>
    /\ IsSome(filters.status) => row.status = Unwrap(filters.status)

\* Database::fetch_projects
fetch_projects(rows, filters) ==
    LET counted == {id \in DOMAIN rows : project_clause(rows[id], filters)}
        names   == sorted_texts({Unwrap(rows[id].project) : id \in counted})
        count(name, status) ==
            Cardinality({id \in counted : /\ Unwrap(rows[id].project) = name
                                          /\ status \in {"", rows[id].status}})
    IN [i \in 1..Len(names) |->
          [project |-> names[i],
           total |-> count(names[i], ""),
           next_actions |-> count(names[i], "next"),
           waiting |-> count(names[i], "waiting"),
           someday |-> count(names[i], "someday")]]

\* TasksService::list: the ViewSnapshots the call may return
list(rows, filters) ==
    IF filters.view = Some("projects")
    THEN {[filters |-> filters, tasks |-> <<>>, projects |-> fetch_projects(rows, filters)]}
    ELSE {[filters |-> filters, tasks |-> seq, projects |-> <<>>] :
             seq \in fetch_tasks(rows, filters)}

(***************************************************************************)
(* The state machine: a store, the id generator and the wall clock         *)
(***************************************************************************)
TaskIds == 1..MaxTasks

\* Monday 2025-01-06 10:00
Now0 == days_from_civil(2025, 1, 6) * MinutesPerDay + 10 * 60

\* what the last operation was, and the target row as it was before it
NoPre == [status |-> "absent", completed_at |-> None]

PreOf(rows, id) ==
    IF Present(rows, id)
    THEN [status |-> rows[id].status, completed_at |-> rows[id].completed_at]
    ELSE NoPre

NoOut == [filters |-> <<>>, tasks |-> <<>>, projects |-> <<>>]

Did(op, id, ok) ==
    [op |-> op, id |-> id, ok |-> ok, pre |-> PreOf(store, id), out |-> NoOut]

\* TaskInput::default() with a text
Input(text) ==
    [text |-> text, notes |-> None, project |-> None, areas |-> <<>>,
     status |-> None, contexts |-> <<>>, tags |-> <<>>, due_at |-> None,
     defer_until |-> None, time_estimate |-> None, energy |-> None,
     priority |-> None, waiting_on |-> None, waiting_since |-> None]

\* TaskInput::require_text
require_text(input) == input.text # <<>>

\* no front end is running
NoApp == [kind |-> "none"]

Init ==
    /\ store = <<>>
    /\ next_id = 1
    /\ app = NoApp
    /\ now = Now0
    /\ last = [op |-> "init", id |-> 0, ok |-> TRUE, pre |-> NoPre, out |-> NoOut]

\* the wall clock advances by a day
Tick ==
    /\ now < Now0 + MaxTicks * MinutesPerDay
    /\ now' = now + MinutesPerDay
    /\ last' = [op |-> "tick", id |-> 0, ok |-> TRUE, pre |-> NoPre, out |-> NoOut]
    /\ UNCHANGED <<store, next_id, app>>

\* TasksService::capture -> Database::handle_add -> parse, then insert
Capture(input) ==
    LET parsed == IF require_text(input) THEN parse_capture(input, now) ELSE Err
    IN IF IsOk(parsed)
       THEN /\ next_id \in TaskIds
            /\ store' = insert_task(store, next_id, Unwrap(parsed), now)
            /\ next_id' = next_id + 1
            /\ last' = Did("capture", next_id, TRUE)
            /\ UNCHANGED <<now, app>>
       ELSE /\ last' = Did("capture", 0, FALSE)
            /\ UNCHANGED <<store, next_id, now, app>>

MarkDone(id) ==
    /\ store' = mark_done(store, {id}, now)
    /\ last' = Did("mark_done", id, Present(store, id))
    /\ UNCHANGED <<next_id, now, app>>

MarkNext(id) ==
    /\ store' = mark_next(store, {id}, now)
    /\ last' = Did("mark_next", id, Present(store, id))
    /\ UNCHANGED <<next_id, now, app>>

MarkSomeday(id) ==
    /\ store' = mark_someday(store, {id}, now)
    /\ last' = Did("mark_someday", id, Present(store, id))
    /\ UNCHANGED <<next_id, now, app>>

MarkInbox(id) ==
    /\ store' = mark_inbox(store, {id}, now)
    /\ last' = Did("mark_inbox", id, Present(store, id))
    /\ UNCHANGED <<next_id, now, app>>

Delete(id) ==
    /\ store' = delete_tasks(store, {id})
    /\ last' = Did("delete", id, Present(store, id))
    /\ UNCHANGED <<next_id, now, app>>

DeferUntil(id, defer_until) ==
    /\ store' = svc_defer_until(store, id, defer_until, now)
    /\ last' = Did("defer_until", id, Present(store, id))
    /\ UNCHANGED <<next_id, now, app>>

RenameTask(id, title) ==
    /\ store' = rename_task(store, id, title, now)
    /\ last' = Did("rename_task", id, Present(store, id))
    /\ UNCHANGED <<next_id, now, app>>

UpdateProject(id, project) ==
    /\ store' = update_project(store, id, project, now)
    /\ last' = Did("update_project", id, Present(store, id))
    /\ UNCHANGED <<next_id, now, app>>

UpdateContexts(id, contexts) ==
    /\ store' = update_contexts(store, id, contexts, now)
    /\ last' = Did("update_contexts", id, Present(store, id))
    /\ UNCHANGED <<next_id, now, app>>

UpdateTags(id, tags) ==
    /\ store' = update_tags(store, id, tags, now)
    /\ last' = Did("update_tags", id, Present(store, id))
    /\ UNCHANGED <<next_id, now, app>>

UpdatePriority(id, priority) ==
    /\ store' = update_priority(store, id, priority, now)
    /\ last' = Did("update_priority", id, Present(store, id))
    /\ UNCHANGED <<next_id, now, app>>

\* Database::update_task called with the stored task under a new status
UpdateTask(id, status) ==
    /\ store' = IF Present(store, id)
                THEN update_task(store, id,
                                 [NewTaskFrom(store[id]) EXCEPT !.status = status], now)
                ELSE store
    /\ last' = Did("update_task", id, Present(store, id))
    /\ UNCHANGED <<next_id, now, app>>

\* TasksService::list with the defaults of a view; the snapshot is the result
List(view) ==
    /\ \E snapshot \in list(store, for_view(view)) :
          last' = [op |-> "list", id |-> 0, ok |-> TRUE, pre |-> NoPre, out |-> snapshot]
    /\ UNCHANGED <<store, next_id, now, app>>

(***************************************************************************)
(* Inputs of the operations                                                *)
(***************************************************************************)
OptViews == {None} \cup {Some(v) : v \in Views}

OptStatuses == {None} \cup {Some(st) : st \in Statuses}

\* "a", with every explicit status and with none
PlainInputs == {[Input(<< <<"a">> >>) EXCEPT !.status = st] : st \in OptStatuses}

\* "a wait:bob due:today"
WaitingInput ==
    Input(<< <<"a">>, <<"w","a","i","t",":","b","o","b">>,
             <<"d","u","e",":","t","o","d","a","y">> >>)

\* inputs the parser or the service rejects
BadInputs ==
    { Input(<<>>),
      Input(<< <<" ">> >>),
      [Input(<< <<"a">> >>) EXCEPT !.energy = Some(<<"m","a","x">>)],
      Input(<< <<"a">>, <<"p",":","x">> >>),
      Input(<< <<"a">>, <<"t",":","x">> >>),
      Input(<< <<"a">>, <<"e",":","x">> >>),
      Input(<< <<"a">>, <<"d","u","e",":","n","e","v","e","r">> >>),
      [Input(<< <<"a">> >>) EXCEPT !.defer_until = Some(<<"n","e","v","e","r">>)] }

CaptureInputs == PlainInputs \cup {WaitingInput} \cup BadInputs

DeferInputs == {None, Some(Now0 + 2 * MinutesPerDay)}

\* the operations of the service and the database, at one instant of the clock
Next ==
    \/ \E input \in CaptureInputs : Capture(input)
    \/ \E id \in TaskIds : MarkDone(id)
    \/ \E id \in TaskIds : MarkNext(id)
    \/ \E id \in TaskIds : MarkSomeday(id)
    \/ \E id \in TaskIds : MarkInbox(id)
    \/ \E id \in TaskIds : Delete(id)
    \/ \E id \in TaskIds, d \in DeferInputs : DeferUntil(id, d)
    \/ \E id \in TaskIds : RenameTask(id, <<"a">>)
    \/ \E id \in TaskIds : UpdateProject(id, Some(<<" ">>))
    \/ \E id \in TaskIds : UpdateContexts(id, << <<" ">> >>)
    \/ \E id \in TaskIds : UpdateTags(id, << <<>> >>)
    \/ \E id \in TaskIds : UpdatePriority(id, 0)
    \/ \E id \in TaskIds, st \in Statuses : UpdateTask(id, st)
    \/ \E view \in OptViews : List(view)

Spec == Init /\ [][Next]_vars

\* capture and the status operations while the clock advances between the calls
NextClock ==
    \/ Tick
    \/ \E input \in PlainInputs : Capture(input)
    \/ \E id \in TaskIds : MarkDone(id)
    \/ \E id \in TaskIds : MarkNext(id)
    \/ \E id \in TaskIds : MarkSomeday(id)
    \/ \E id \in TaskIds : MarkInbox(id)

SpecClock == Init /\ [][NextClock]_vars

\* the same, with a rename among the calls
NextStamps ==
    \/ NextClock
    \/ \E id \in TaskIds : RenameTask(id, <<"b">>)

SpecStamps == Init /\ [][NextStamps]_vars

(***************************************************************************)
(* Listings of stores with several rows (mcp/tools/list.rs)                *)
(***************************************************************************)
\* the number of rows of a listed store
MaxRows == 2

\* the captures behind the listed rows: "a"; "a due:today +x" as Next;
\* "a due:tomorrow p:2 +x" as Waiting; "a p:2 +y" as Someday; "a due:today t:5";
\* "a" as Done with a blank structured project
OrderInputs ==
    { Input(<< <<"a">> >>),
      [Input(<< <<"a">>, <<"d","u","e",":","t","o","d","a","y">>, <<"+","x">> >>)
          EXCEPT !.status = Some("next")],
      [Input(<< <<"a">>, <<"d","u","e",":","t","o","m","o","r","r","o","w">>,
                <<"p",":","2">>, <<"+","x">> >>)
          EXCEPT !.status = Some("waiting")],
      [Input(<< <<"a">>, <<"p",":","2">>, <<"+","y">> >>)
          EXCEPT !.status = Some("someday")],
      Input(<< <<"a">>, <<"d","u","e",":","t","o","d","a","y">>, <<"t",":","5">> >>),
      [Input(<< <<"a">> >>) EXCEPT !.status = Some("done"), !.project = Some(<<" ">>)] }

\* the instants the captures read from the clock
OrderTimes == {Now0, Now0 + MinutesPerDay}

\* sequences of n captures; the clock never runs backwards between two of them
OrderCalls(n) ==
    {calls \in [1..n -> [input : OrderInputs, at : OrderTimes]] :
        \A i \in 1..n : i < n => calls[i].at <= calls[i + 1].at}

\* the store after the captures calls[1..n] on an empty store
RECURSIVE capture_all(_, _)
capture_all(calls, n) ==
    IF n = 0 THEN <<>>
    ELSE insert_task(capture_all(calls, n - 1), n,
                     Unwrap(parse_capture(calls[n].input, calls[n].at)), calls[n].at)

\* a store of one to MaxRows captured tasks, before any listing
InitOrder ==
    \E n \in 1..MaxRows : \E calls \in OrderCalls(n) :
        /\ store = capture_all(calls, n)
        /\ next_id = n + 1
        /\ app = NoApp
        /\ now = calls[n].at
        /\ last = [op |-> "init", id |-> 0, ok |-> TRUE, pre |-> NoPre, out |-> NoOut]

SortFields == {"due", "priority", "created"}

\* ListTasksArgs::to_filters: the defaults of the view, then each argument the
\* caller gives
to_filters(args) ==
    [for_view(args.view) EXCEPT
        !.status = IF IsSome(args.status) THEN args.status ELSE @,
        !.include_done = IF IsSome(args.include_done) THEN Unwrap(args.include_done) ELSE @,
        !.sort = IF IsSome(args.sort) THEN Unwrap(args.sort) ELSE @,
        !.reverse = IF IsSome(args.reverse) THEN Unwrap(args.reverse) ELSE @]

\* the list_tasks tool: to_filters, then TasksService::list
ListWith(args) ==
    /\ \E snapshot \in list(store, to_filters(args)) :
          last' = [op |-> "list", id |-> 0, ok |-> TRUE, pre |-> NoPre, out |-> snapshot]
    /\ UNCHANGED <<store, next_id, now, app>>

\* the arguments of the listings: every sort chain in both directions, with and
\* without finished tasks, and the project summaries with and without a status
OrderArgs ==
    [view : {None}, status : {None}, include_done : {None, Some(TRUE)},
     sort : {Some(f) : f \in SortFields}, reverse : {Some(r) : r \in BOOLEAN}]
    \cup
    [view : {Some("inbox")}, status : {None}, include_done : {None},
     sort : {Some(f) : f \in SortFields}, reverse : {Some(r) : r \in BOOLEAN}]
    \cup
    [view : {Some("projects")}, status : {None, Some("next")}, include_done : {None},
     sort : {None}, reverse : {None}]

NextOrder == \E args \in OrderArgs : ListWith(args)

SpecOrder == InitOrder /\ [][NextOrder]_vars

(***************************************************************************)
(* The capture parser on its own (parser.rs)                               *)
(***************************************************************************)
\* the number of text arguments of a parsed capture
MaxPieces == 2

\* the text arguments: a plain word, a blank, directive tokens with and without
\* trailing punctuation, priorities in and out of range, bad labels
Pieces ==
    { <<"a">>, <<" ">>, <<"@","h">>, <<"@","h",",">>, <<"+","x">>, <<"#","t",".">>,
      <<"w","a","i","t",":","b","o","b">>, <<"p",":","2">>, <<"p",":","9">>,
      <<"p",":","2","5","6">>, <<"p",":","x">>, <<"e",":","x">> }

ParseTexts == UNION {[1..n -> Pieces] : n \in 0..MaxPieces}

\* the structured fields given next to the text
Overrides ==
    { [status |-> None, waiting_on |-> None, priority |-> None, energy |-> None],
      [status |-> Some("next"), waiting_on |-> None, priority |-> None, energy |-> None],
      [status |-> None, waiting_on |-> Some(<<" ">>), priority |-> None, energy |-> None],
      [status |-> None, waiting_on |-> Some(<<"a","l">>), priority |-> None,
       energy |-> None],
      [status |-> Some("done"), waiting_on |-> Some(<<"a","l">>), priority |-> None,
       energy |-> None],
      [status |-> None, waiting_on |-> None, priority |-> Some(2), energy |-> None],
      [status |-> None, waiting_on |-> None, priority |-> Some(200), energy |-> None],
      [status |-> None, waiting_on |-> None, priority |-> None,
       energy |-> Some(<<"m","a","x">>)] }

ParseInputs ==
    {[Input(text) EXCEPT !.status = o.status, !.waiting_on = o.waiting_on,
                         !.priority = o.priority, !.energy = o.energy] :
        text \in ParseTexts, o \in Overrides}

\* the caller holds an input that was not parsed yet
InitParse ==
    \E input \in ParseInputs :
        /\ store = <<>>
        /\ next_id = 1
        /\ app = NoApp
        /\ now = Now0
        /\ last = [op |-> "input", id |-> 0, ok |-> TRUE, pre |-> NoPre,
                   out |-> [input |-> input, parsed |-> Err]]

\* parser::parse_capture on the input; the result is kept next to it
ParseCapture ==
    /\ last.op = "input"
    /\ last' = [last EXCEPT !.op = "parse_capture",
                            !.ok = IsOk(parse_capture(last.out.input, now)),
                            !.out.parsed = parse_capture(last.out.input, now)]
    /\ UNCHANGED <<store, next_id, now, app>>

NextParse == ParseCapture

SpecParse == InitParse /\ [][NextParse]_vars

(***************************************************************************)
(* Edits of the labels and the title of a stored task (services/tasks.rs)  *)
(***************************************************************************)
\* "a", and "a @H @h #T" with the areas " Work" and "work"
EditInputs ==
    { Input(<< <<"a">> >>),
      [Input(<< <<"a">>, <<"@","H">>, <<"@","h">>, <<"#","T">> >>)
          EXCEPT !.areas = << <<" ","W","o","r","k">>, <<"w","o","r","k">> >>] }

\* the label lists an edit hands over
LabelLists ==
    { << <<"h">> >>, << <<"H">> >>, << <<"h">>, <<"H">> >>, << <<" ">> >> }

\* the titles a rename hands over
Titles == {<<>>, <<"b">>}

NextEdit ==
    \/ \E input \in EditInputs : Capture(input)
    \/ \E id \in TaskIds, contexts \in LabelLists : UpdateContexts(id, contexts)
    \/ \E id \in TaskIds, tags \in LabelLists : UpdateTags(id, tags)
    \/ \E id \in TaskIds : UpdateTask(id, "next")
    \/ \E id \in TaskIds, title \in Titles : RenameTask(id, title)

SpecEdit == Init /\ [][NextEdit]_vars

(***************************************************************************)
(* The date resolver on its own (parser.rs)                                *)
(***************************************************************************)
\* the instants the resolver is called at: each day of a week, before and after
\* nine in the morning
DateNows ==
    {Now0 + d * MinutesPerDay + h * 60 : d \in 0..6, h \in {-2, 0, 13}}

\* the date specifications: the weekday names, short and full in either case, and
\* a few other forms
DateSpecs ==
    { <<"m","o","n">>, <<"t","u","e">>, <<"w","e","d">>, <<"t","h","u">>,
      <<"f","r","i">>, <<"s","a","t">>, <<"s","u","n">>,
      <<"M","o","n","d","a","y">>, <<"s","u","n","d","a","y">>,
      <<"t","o","d","a","y">>, <<"+","1","d">>, <<"n","e","v","e","r">> }

\* the caller holds a date specification that was not resolved yet
InitDate ==
    \E t \in DateNows, spec \in DateSpecs :
        /\ store = <<>>
        /\ next_id = 1
        /\ app = NoApp
        /\ now = t
        /\ last = [op |-> "spec", id |-> 0, ok |-> TRUE, pre |-> NoPre,
                   out |-> [spec |-> spec, resolved |-> Err]]

\* parser::parse_date_spec on the specification, at the current instant
ResolveDate ==
    /\ last.op = "spec"
    /\ last' = [last EXCEPT !.op = "parse_date_spec",
                            !.ok = IsOk(parse_date_spec(last.out.spec, now)),
                            !.out.resolved = parse_date_spec(last.out.spec, now)]
    /\ UNCHANGED <<store, next_id, now, app>>

SpecDate == InitDate /\ [][ResolveDate]_vars

(***************************************************************************)
(* The desktop shell (crates/desktop/src/app): one update loop, `react`,   *)
(* and the commands it spawns on background workers.  A command in flight  *)
(* first runs against the store and is then delivered back as a message.   *)
(* Inline edits, the theme, the palette's query, the preview of a capture  *)
(* and its error, the render counter of a view and the expiry of the toast *)
(* are left out; the toast keeps its kind only.                            *)
(***************************************************************************)
\* the commands that may be in flight at once
MaxInFlight == 2

\* the tasks the store of the desktop may hold
MaxDeskTasks == 1

\* the mutations the user may ask for in one run
MaxMutations == 1

\* ViewTab
ViewTabs == {"All", "Inbox", "Next", "Waiting", "Scheduled", "Projects"}

\* ViewTab::ALL
ViewTab_ALL == <<"All", "Inbox", "Next", "Scheduled", "Waiting", "Projects">>

\* ViewTab::list_view
list_view(tab) ==
    CASE tab = "All" -> None
      [] tab = "Inbox" -> Some("inbox")
      [] tab = "Next" -> Some("next")
      [] tab = "Waiting" -> Some("waiting")
      [] tab = "Scheduled" -> Some("scheduled")
      [] tab = "Projects" -> Some("projects")

\* ViewStore::new
ViewStore_new == [snapshot |-> None, state |-> "Idle"]

\* CaptureState::new
CaptureState_new == [open |-> FALSE, text |-> <<>>, submitting |-> FALSE]

\* CommandPaletteState::new
CommandPaletteState_new == [open |-> FALSE, selected |-> 0]

\* COMMAND_ACTIONS, by id
COMMAND_ACTIONS ==
    <<"OpenCapture", "PromoteNext", "MarkDone", "MoveToInbox",
      "DeferTomorrow", "DeferNextWeek", "Refresh">>

\* MutationKind::Promote, Complete, Inbox and Defer
Promote(ids) == [label |-> "promote", ids |-> ids, until |-> None]

Complete(ids) == [label |-> "complete", ids |-> ids, until |-> None]

Inbox(ids) == [label |-> "move to inbox", ids |-> ids, until |-> None]

Defer(id, until) == [label |-> "defer", ids |-> {id}, until |-> Some(until)]

\* a Task as a listing returns it: the row and its id
TaskOf(rows, id) ==
    [f \in DOMAIN rows[id] \cup {"id"} |-> IF f = "id" THEN id ELSE rows[id][f]]

\* TasksService::list as the desktop calls it: the snapshots carry the tasks
service_list(rows, filters) ==
    {[filters |-> s.filters,
      tasks |-> [i \in 1..Len(s.tasks) |-> TaskOf(rows, s.tasks[i])],
      projects |-> s.projects] : s \in list(rows, filters)}

\* commands::load_view_command, not yet run
load_view_command(tab) ==
    [cmd |-> "load", tab |-> tab, kind |-> Promote({}), input |-> <<>>,
     done |-> FALSE, result |-> Err]

\* commands::capture_command, not yet run
capture_command(input) ==
    [cmd |-> "capture", tab |-> "All", kind |-> Promote({}), input |-> input,
     done |-> FALSE, result |-> Err]

\* commands::mutation_command, not yet run
mutation_command(kind) ==
    [cmd |-> "mutation", tab |-> "All", kind |-> kind, input |-> <<>>,
     done |-> FALSE, result |-> Err]

\* the service call mutation_command makes for a kind, on the rows
mutation_call(rows, kind, t) ==
    CASE kind.label = "promote" -> mark_next(rows, kind.ids, t)
      [] kind.label = "complete" -> mark_done(rows, kind.ids, t)
      [] kind.label = "move to inbox" -> mark_inbox(rows, kind.ids, t)
      [] kind.label = "defer" ->
            svc_defer_until(rows, CHOOSE id \in kind.ids : TRUE, kind.until, t)

\* Effect::perform: the command joins the ones in flight
perform(a, command) == [a EXCEPT !.inflight = Append(@, command)]

\* CptDesktop::bootstrap with a service: the Inbox is loading
bootstrap ==
    [kind |-> "desktop",
     views |-> [tab \in ViewTabs |->
                  IF tab = "Inbox" THEN [ViewStore_new EXCEPT !.state = "Loading"]
                  ELSE ViewStore_new],
     active |-> "Inbox",
     status |-> None,
     capture |-> CaptureState_new,
     command_palette |-> CommandPaletteState_new,
     selected_task |-> None,
     pending_mutations |-> 0,
     inflight |-> <<load_view_command("Inbox")>>]

\* CptDesktop::current_tasks
current_tasks(a) ==
    IF IsSome(a.views[a.active].snapshot)
    THEN Unwrap(a.views[a.active].snapshot).tasks
    ELSE <<>>

\* the position of the task with an id in a list of tasks, 0 when absent
position(tasks, id) ==
    IF \E i \in 1..Len(tasks) : tasks[i].id = id
    THEN CHOOSE i \in 1..Len(tasks) :
            tasks[i].id = id /\ \A j \in 1..(i - 1) : tasks[j].id # id
    ELSE 0

\* CptDesktop::sync_selection_with_view
sync_selection_with_view(a) ==
    LET tasks == current_tasks(a)
        has_selected == IsSome(a.selected_task)
                        /\ position(tasks, Unwrap(a.selected_task)) > 0
    IN IF has_selected THEN a
       ELSE [a EXCEPT !.selected_task =
                IF tasks = <<>> THEN None ELSE Some(tasks[1].id)]

\* CptDesktop::refresh_active_view
refresh_active_view(a) ==
    perform([a EXCEPT !.views[a.active].state = "Loading"],
            load_view_command(a.active))

\* CptDesktop::switch_view
switch_view(a, tab) ==
    perform([a EXCEPT !.active = tab, !.views[tab].state = "Loading"],
            load_view_command(tab))

\* CptDesktop::handle_view_loaded
handle_view_loaded(a, tab, result) ==
    IF IsOk(result)
    THEN LET loaded == [a EXCEPT !.views[tab].state = "Idle",
                                 !.views[tab].snapshot = Some(Unwrap(result))]
         IN IF tab = a.active THEN sync_selection_with_view(loaded) ELSE loaded
    ELSE [a EXCEPT !.views[tab].state = "Error", !.status = Some("Error")]

\* a refresh tick that never reloads
on_refresh_tick_idle(a) == a

\* CptDesktop::on_refresh_tick
on_refresh_tick(a) ==
    IF a.pending_mutations = 0 THEN refresh_active_view(a) ELSE a

\* CaptureState::clear
capture_clear(c) == [c EXCEPT !.text = <<>>, !.submitting = FALSE]

\* CaptureState::toggle
capture_toggle(c) ==
    IF c.open THEN capture_clear([c EXCEPT !.open = FALSE])
    ELSE [c EXCEPT !.open = TRUE]

\* CaptureState::input
capture_input(c) == Input(split_whitespace(c.text))

\* CaptureState::on_text_changed
on_text_changed(c, value) == [c EXCEPT !.text = value]

\* CommandPaletteState::close
palette_close(p) == [p EXCEPT !.open = FALSE, !.selected = 0]

\* CommandPaletteState::toggle
palette_toggle(p) ==
    IF p.open THEN [p EXCEPT !.open = FALSE]
    ELSE [p EXCEPT !.open = TRUE, !.selected = 0]

\* CommandPaletteState::move_selection, every action listed
palette_move_selection(p, delta) ==
    LET len == Len(COMMAND_ACTIONS)
        next == p.selected + delta
    IN [p EXCEPT !.selected = IF next < 0 THEN len - 1
                               ELSE IF next >= len THEN 0 ELSE next]

\* CommandPaletteState::selected_action
selected_action(p) == COMMAND_ACTIONS[p.selected + 1]

\* a toggle_command_palette that leaves the capture panel as it is
toggle_command_palette_keeps_capture(a) ==
    [a EXCEPT !.command_palette = palette_toggle(@)]

\* CptDesktop::toggle_command_palette
toggle_command_palette(a) ==
    LET toggled == [a EXCEPT !.command_palette = palette_toggle(@)]
    IN IF toggled.command_palette.open
       THEN [toggled EXCEPT !.capture.open = FALSE]
       ELSE toggled

\* CptDesktop::toggle_capture
toggle_capture(a) ==
    LET toggled == [a EXCEPT !.capture = capture_toggle(@)]
    IN IF toggled.capture.open
       THEN [toggled EXCEPT !.command_palette = palette_close(@)]
       ELSE toggled

\* CptDesktop::submit_capture
submit_capture(a) ==
    IF ~a.capture.open \/ a.capture.submitting THEN a
    ELSE IF trim(a.capture.text) = <<>> THEN a
    ELSE perform([a EXCEPT !.capture.submitting = TRUE],
                 capture_command(capture_input(a.capture)))

\* CptDesktop::finish_capture
finish_capture(a, result) ==
    IF IsOk(result)
    THEN refresh_active_view(
            [a EXCEPT !.status = Some("Info"),
                      !.capture = [capture_clear(@) EXCEPT !.open = FALSE]])
    ELSE [a EXCEPT !.capture.submitting = FALSE, !.status = Some("Error")]

\* CptDesktop::finish_mutation
finish_mutation(a, kind, result) ==
    LET finished == [a EXCEPT !.pending_mutations =
                                 IF @ = 0 THEN 0 ELSE @ - 1]
    IN IF IsOk(result)
       THEN refresh_active_view([finished EXCEPT !.status = Some("Info")])
       ELSE [finished EXCEPT !.status = Some("Error")]

\* Vec::retain on the tasks of a snapshot
retain(tasks, keep(_)) == SelectSeq(tasks, keep)

\* the branch of apply_optimistic_update for Promote, Complete, Inbox and Defer
apply_optimistic_update(a, ids, kind) ==
    LET should_remove ==
            CASE kind.label = "promote" -> a.active # "Next"
              [] kind.label = "complete" -> TRUE
              [] kind.label = "move to inbox" -> a.active # "Inbox"
              [] OTHER -> FALSE
        updated ==
            IF IsSome(a.views[a.active].snapshot) /\ should_remove
            THEN [a EXCEPT !.views[a.active].snapshot =
                     Some([Unwrap(@) EXCEPT !.tasks =
                              retain(@, LAMBDA task : task.id \notin ids)])]
            ELSE a
    IN [sync_selection_with_view(updated) EXCEPT !.status = Some("Info")]

\* CptDesktop::apply_optimistic_defer
apply_optimistic_defer(a, id, until) ==
    LET deferred(task) ==
            IF task.id # id THEN task
            ELSE [task EXCEPT !.defer_until = Some(until),
                              !.status = IF a.active \in {"Inbox", "Next"}
                                         THEN "scheduled" ELSE @]
        updated ==
            IF IsSome(a.views[a.active].snapshot)
            THEN [a EXCEPT !.views[a.active].snapshot =
                     Some([Unwrap(@) EXCEPT !.tasks =
                              retain([i \in 1..Len(@) |-> deferred(@[i])],
                                     LAMBDA task : task.id # id
                                                   \/ a.active = "Scheduled")])]
            ELSE a
    IN [sync_selection_with_view(updated) EXCEPT !.status = Some("Info")]

\* CptDesktop::selected_ids
selected_ids(a) ==
    IF IsSome(a.selected_task) THEN Some({Unwrap(a.selected_task)}) ELSE None

\* CptDesktop::apply_status_change
apply_status_change(a, ids, kind) ==
    perform([apply_optimistic_update(a, ids, kind)
                EXCEPT !.pending_mutations = @ + 1],
            mutation_command(kind))

\* CptDesktop::defer_selected; the offset is in days
defer_selected(a, offset) ==
    IF IsNone(a.selected_task) THEN a
    ELSE LET selected == Unwrap(a.selected_task)
             until == now + offset * MinutesPerDay
         IN perform([apply_optimistic_defer(a, selected, until)
                        EXCEPT !.pending_mutations = @ + 1],
                    mutation_command(Defer(selected, until)))

\* CptDesktop::handle_action
handle_action(a, action) ==
    CASE action = "OpenCapture" -> IF a.capture.open THEN a ELSE toggle_capture(a)
      [] action = "Refresh" -> refresh_active_view(a)
      [] action = "PromoteNext" ->
            IF IsSome(selected_ids(a))
            THEN apply_status_change(a, Unwrap(selected_ids(a)),
                                     Promote(Unwrap(selected_ids(a))))
            ELSE a
      [] action = "MarkDone" ->
            IF IsSome(selected_ids(a))
            THEN apply_status_change(a, Unwrap(selected_ids(a)),
                                     Complete(Unwrap(selected_ids(a))))
            ELSE a
      [] action = "MoveToInbox" ->
            IF IsSome(selected_ids(a))
            THEN apply_status_change(a, Unwrap(selected_ids(a)),
                                     Inbox(Unwrap(selected_ids(a))))
            ELSE a
      [] action = "DeferTomorrow" -> defer_selected(a, 1)
      [] action = "DeferNextWeek" -> defer_selected(a, 7)

\* CptDesktop::move_tab
move_tab(a, delta) ==
    LET len == Len(ViewTab_ALL)
        current_index == CHOOSE i \in 1..len : ViewTab_ALL[i] = a.active
        next == current_index + delta
    IN switch_view(a, ViewTab_ALL[IF next < 1 THEN len
                                  ELSE IF next > len THEN 1 ELSE next])

\* CptDesktop::move_selection
move_selection(a, delta) ==
    LET tasks == current_tasks(a)
        found == IF IsSome(a.selected_task)
                 THEN position(tasks, Unwrap(a.selected_task)) ELSE 0
        current_index == IF found = 0 THEN 1 ELSE found
        next == current_index + delta
    IN IF tasks = <<>> THEN [a EXCEPT !.selected_task = None]
       ELSE [a EXCEPT !.selected_task =
                Some(tasks[IF next < 1 THEN Len(tasks)
                           ELSE IF next > Len(tasks) THEN 1 ELSE next].id)]

\* the keys of handle_keyboard; CtrlK is k with the command modifier
Keys ==
    {"CtrlK", "Escape", "Enter", "ArrowDown", "ArrowUp", "Tab", "ShiftTab",
     "/", "a", "d", "n", "i", "r"}

\* CptDesktop::handle_keyboard, no inline edit open
handle_keyboard(a, key) ==
    IF key = "CtrlK" THEN toggle_command_palette(a)
    ELSE IF a.command_palette.open
    THEN CASE key = "ArrowDown" ->
                 [a EXCEPT !.command_palette = palette_move_selection(@, 1)]
           [] key = "ArrowUp" ->
                 [a EXCEPT !.command_palette = palette_move_selection(@, -1)]
           [] key = "Escape" -> [a EXCEPT !.command_palette = palette_close(@)]
           [] key = "Enter" -> handle_action(a, selected_action(a.command_palette))
           [] OTHER -> a
    ELSE IF a.capture.open
    THEN CASE key = "Escape" ->
                 [a EXCEPT !.capture = [capture_clear(@) EXCEPT !.open = FALSE]]
           [] key = "Enter" -> submit_capture(a)
           [] OTHER -> a
    ELSE CASE key = "Tab" -> move_tab(a, 1)
           [] key = "ShiftTab" -> move_tab(a, -1)
           [] key = "ArrowDown" -> move_selection(a, 1)
           [] key = "ArrowUp" -> move_selection(a, -1)
           [] key = "/" -> toggle_command_palette(a)
           [] key = "a" -> toggle_capture(a)
           [] key = "d" -> handle_action(a, "MarkDone")
           [] key = "n" -> handle_action(a, "PromoteNext")
           [] key = "i" -> handle_action(a, "MoveToInbox")
           [] key = "r" -> refresh_active_view(a)
           [] OTHER -> a

\* the captures behind the tasks the desktop starts with: "a" in the Inbox, as
\* Next, as Waiting and as Scheduled, and "a due:today" in the Inbox
DeskInputs ==
    {[Input(<< <<"a">> >>) EXCEPT !.status = status] :
        status \in {None, Some("next"), Some("waiting"), Some("scheduled")}}
    \cup {Input(<< <<"a">>, <<"d","u","e",":","t","o","d","a","y">> >>)}

\* the stores the desktop may start on
DeskStores ==
    {capture_all(calls, n) :
        calls \in [1..MaxDeskTasks -> [input : DeskInputs, at : {Now0}]],
        n \in 0..MaxDeskTasks}

\* the texts typed into the capture panel: nothing or a title
CaptureTexts == {<<>>, <<"a">>}

\* the commands of a sort among the ones in flight
in_flight(a, cmd) == Cardinality({i \in 1..Len(a.inflight) : a.inflight[i].cmd = cmd})

\* the capture commands in flight that have not run yet
captures_waiting(a) ==
    Cardinality({i \in 1..Len(a.inflight) :
                    a.inflight[i].cmd = "capture" /\ ~a.inflight[i].done})

\* the mutations asked for so far, once the app is in its next state b
sent(b) ==
    last.out.sent + IF in_flight(b, "mutation") > in_flight(app, "mutation")
                    THEN 1 ELSE 0

\* the bounds of the model hold of the next state of the app
Bounded(b) ==
    /\ Len(b.inflight) <= MaxInFlight
    /\ sent(b) <= MaxMutations
    /\ Len(b.inflight) > Len(app.inflight) =>
          next_id - 1 + captures_waiting(b) <= MaxDeskTasks

\* what the last step was: an input of the user or the clock, the run of a
\* command, or the message a command came back as; sent counts the mutations
\* asked for so far
Step(op, ok, n) ==
    [op |-> op, id |-> 0, ok |-> ok, pre |-> NoPre, out |-> [sent |-> n]]

\* the command at position i leaves the ones in flight
delivered(a, i) ==
    [a EXCEPT !.inflight = SubSeq(@, 1, i - 1) \o SubSeq(@, i + 1, Len(@))]

InitDesktop ==
    \E rows \in DeskStores :
        /\ store = rows
        /\ next_id = Cardinality(DOMAIN rows) + 1
        /\ now = Now0
        /\ app = bootstrap
        /\ last = Step("init", TRUE, 0)

\* CptDesktop::react on one message: the handler of the message runs
React(op, ok, handled(_)) ==
    \E b \in {handled(app)} :
        /\ Bounded(b)
        /\ app' = b
        /\ last' = Step(op, ok, sent(b))
        /\ UNCHANGED <<store, next_id, now>>

\* a tab is opened from the Inbox, where the desktop starts
ViewRequested(tab) ==
    /\ app.active = "Inbox"
    /\ React("input", TRUE, LAMBDA a : switch_view(a, tab))

\* the refresh subscription of a desktop with a service fires
RefreshTick ==
    /\ app.kind = "desktop"
    /\ React("input", TRUE, LAMBDA a : on_refresh_tick(a))

CaptureToggled ==
    /\ app.kind = "desktop"
    /\ React("input", TRUE, LAMBDA a : toggle_capture(a))

CaptureTextChanged(value) ==
    /\ app.kind = "desktop"
    /\ React("input", TRUE,
          LAMBDA a : [a EXCEPT !.capture = on_text_changed(@, value)])

CaptureSubmit ==
    /\ app.kind = "desktop"
    /\ React("input", TRUE, LAMBDA a : submit_capture(a))

CommandPaletteToggled ==
    /\ app.kind = "desktop"
    /\ React("input", TRUE, LAMBDA a : toggle_command_palette(a))

CommandPaletteClosed ==
    /\ app.kind = "desktop"
    /\ React("input", TRUE,
          LAMBDA a : [a EXCEPT !.command_palette = palette_close(@)])

CommandPaletteExecute(action) ==
    /\ app.kind = "desktop"
    /\ React("input", TRUE,
          LAMBDA a : handle_action([a EXCEPT !.command_palette = palette_close(@)],
                                   action))

\* a click on a row of the active view
RowSelected(i) ==
    /\ i \in 1..Len(current_tasks(app))
    /\ React("input", TRUE,
             LAMBDA a : [a EXCEPT !.selected_task = Some(current_tasks(app)[i].id)])

\* a key press; Tab and Shift+Tab open a tab from the Inbox
Keyboard(key) ==
    /\ key \in {"Tab", "ShiftTab"} => app.active = "Inbox"
    /\ React("input", TRUE, LAMBDA a : handle_keyboard(a, key))

\* a worker runs load_view_command: TasksService::list on the store as it is
RunLoad(i) ==
    /\ i \in 1..Len(app.inflight)
    /\ app.inflight[i].cmd = "load"
    /\ ~app.inflight[i].done
    /\ \E snapshot \in service_list(store, for_view(list_view(app.inflight[i].tab))) :
          app' = [app EXCEPT !.inflight[i].done = TRUE,
                             !.inflight[i].result = Ok(snapshot)]
    /\ last' = Step("run", TRUE, last.out.sent)
    /\ UNCHANGED <<store, next_id, now>>

\* a worker runs capture_command: TasksService::capture; the store may refuse
\* the write
RunCapture(i) ==
    /\ i \in 1..Len(app.inflight)
    /\ app.inflight[i].cmd = "capture"
    /\ ~app.inflight[i].done
    /\ \E writable \in BOOLEAN :
          \E parsed \in {IF require_text(app.inflight[i].input) /\ writable
                         THEN parse_capture(app.inflight[i].input, now) ELSE Err} :
              IF IsOk(parsed)
              THEN /\ store' = insert_task(store, next_id, Unwrap(parsed), now)
                   /\ next_id' = next_id + 1
                   /\ app' = [app EXCEPT !.inflight[i].done = TRUE,
                                         !.inflight[i].result = Ok(next_id)]
                   /\ last' = Step("run", TRUE, last.out.sent)
              ELSE /\ app' = [app EXCEPT !.inflight[i].done = TRUE]
                   /\ last' = Step("run", FALSE, last.out.sent)
                   /\ UNCHANGED <<store, next_id>>
    /\ UNCHANGED now

\* a worker runs mutation_command; the store may refuse the write
RunMutation(i) ==
    /\ i \in 1..Len(app.inflight)
    /\ app.inflight[i].cmd = "mutation"
    /\ ~app.inflight[i].done
    /\ \E ok \in BOOLEAN :
          /\ store' = IF ok THEN mutation_call(store, app.inflight[i].kind, now)
                      ELSE store
          /\ app' = [app EXCEPT !.inflight[i].done = TRUE,
                                !.inflight[i].result = IF ok THEN Ok(<<>>) ELSE Err]
          /\ last' = Step("run", ok, last.out.sent)
    /\ UNCHANGED <<next_id, now>>

\* Message::ViewLoaded: the result of a load comes back
ViewLoaded(i) ==
    /\ i \in 1..Len(app.inflight)
    /\ app.inflight[i].cmd = "load"
    /\ app.inflight[i].done
    /\ React("ViewLoaded", IsOk(app.inflight[i].result),
             LAMBDA a : handle_view_loaded(delivered(a, i), app.inflight[i].tab,
                                           app.inflight[i].result))

\* Message::CaptureCompleted
CaptureCompleted(i) ==
    /\ i \in 1..Len(app.inflight)
    /\ app.inflight[i].cmd = "capture"
    /\ app.inflight[i].done
    /\ React("CaptureCompleted", IsOk(app.inflight[i].result),
             LAMBDA a : finish_capture(delivered(a, i), app.inflight[i].result))

\* Message::MutationFinished
MutationFinished(i) ==
    /\ i \in 1..Len(app.inflight)
    /\ app.inflight[i].cmd = "mutation"
    /\ app.inflight[i].done
    /\ React("MutationFinished", IsOk(app.inflight[i].result),
             LAMBDA a : finish_mutation(delivered(a, i), app.inflight[i].kind,
                                        app.inflight[i].result))

\* the positions of the commands in flight
Slots == 1..MaxInFlight

\* the desktop with its views and mutations: tabs, refreshes, row clicks and
\* palette actions
NextDesktop ==
    \/ \E tab \in ViewTabs : ViewRequested(tab)
    \/ \E key \in {"Tab", "ShiftTab"} : Keyboard(key)
    \/ RefreshTick
    \/ \E i \in 1..MaxDeskTasks : RowSelected(i)
    \/ \E action \in Range(COMMAND_ACTIONS) \ {"OpenCapture"} :
          CommandPaletteExecute(action)
    \/ \E i \in Slots : RunLoad(i)
    \/ \E i \in Slots : RunMutation(i)
    \/ \E i \in Slots : ViewLoaded(i)
    \/ \E i \in Slots : MutationFinished(i)

SpecDesktop == InitDesktop /\ [][NextDesktop]_vars

\* the desktop under its scheduling: the refresh timer keeps firing
\* (subscription, time::every), the workers run the commands handed to them
\* and the runtime delivers their results
SpecDesktopLive ==
    /\ InitDesktop
    /\ [][NextDesktop]_vars
    /\ WF_vars(RefreshTick)
    /\ WF_vars(\E i \in Slots : RunLoad(i))
    /\ WF_vars(\E i \in Slots : RunMutation(i))
    /\ WF_vars(\E i \in Slots : ViewLoaded(i))
    /\ WF_vars(\E i \in Slots : MutationFinished(i))

\* the panels of the desktop: keys, the capture panel and the command palette
NextPanels ==
    \/ \E key \in Keys \ {"Tab", "ShiftTab"} : Keyboard(key)
    \/ CaptureToggled
    \/ \E value \in CaptureTexts : CaptureTextChanged(value)
    \/ CaptureSubmit
    \/ CommandPaletteToggled
    \/ CommandPaletteClosed
    \/ \E action \in Range(COMMAND_ACTIONS) : CommandPaletteExecute(action)
    \/ \E i \in Slots : RunLoad(i)
    \/ \E i \in Slots : RunCapture(i)
    \/ \E i \in Slots : RunMutation(i)
    \/ \E i \in Slots : ViewLoaded(i)
    \/ \E i \in Slots : CaptureCompleted(i)
    \/ \E i \in Slots : MutationFinished(i)

\* the desktop started on an empty store
InitPanels == InitDesktop /\ store = <<>>

SpecPanels == InitPanels /\ [][NextPanels]_vars

(***************************************************************************)
(* The terminal UI (crates/tui): one key at a time on the App, which reads *)
(* and writes the store itself.  Left out: the Add mode and /add, the      *)
(* filter picker and /filter, the cursor inside the buffer (it stays at    *)
(* the end), the inspected task of the detail overlay, first_run, the      *)
(* expiry of the status line; a status keeps its kind only.                *)
(***************************************************************************)
MaxTuiTasks == 1

\* Display for an unsigned number
RECURSIVE to_string(_)
to_string(n) ==
    IF n < 10 THEN <<Digits[n + 1]>>
    ELSE to_string(n \div 10) \o <<Digits[(n % 10) + 1]>>

\* a number in a zero-padded field (%Y, %m, %d)
RECURSIVE padded(_, _)
padded(n, width) ==
    IF width = 0 THEN <<>>
    ELSE padded(n \div 10, width - 1) \o <<Digits[(n % 10) + 1]>>

\* DateTime::format("%Y-%m-%d")
format_ymd(t) ==
    LET date == civil_from_days(date_naive(t))
    IN padded(date.year, 4) \o <<"-">> \o padded(date.month, 2) \o <<"-">>
          \o padded(date.day, 2)

\* EnergyLevel::as_str
energy_as_str(energy) ==
    CASE energy = "low" -> <<"l","o","w">>
      [] energy = "med" -> <<"m","e","d">>
      [] energy = "high" -> <<"h","i","g","h">>

\* the non-empty labels of a list, each behind a prefix
RECURSIVE prefixed(_, _)
prefixed(values, prefix) ==
    IF values = <<>> THEN <<>>
    ELSE (IF values[1] # <<>> THEN <<prefix \o values[1]>> ELSE <<>>)
            \o prefixed(Tail(values), prefix)

\* a component of the capture text for a field that is set
component(field, text(_)) == IF IsSome(field) THEN <<text(Unwrap(field))>> ELSE <<>>

\* Option::filter(|s| !s.is_empty())
non_empty(field) == IF field = Some(<<>>) THEN None ELSE field

\* helpers::compose_task_capture
compose_task_capture(task) ==
    join(<<task.title>>
         \o component(non_empty(task.project), LAMBDA project : <<"+">> \o project)
         \o prefixed(task.areas, <<"&">>)
         \o prefixed(task.contexts, <<"@">>)
         \o prefixed(task.tags, <<"#">>)
         \o component(IF task.priority > 0 THEN Some(task.priority) ELSE None,
                      LAMBDA priority : <<"p",":">> \o to_string(Min(priority, 3)))
         \o component(task.time_estimate,
                      LAMBDA time : <<"t",":">> \o to_string(time) \o <<"m">>)
         \o component(task.energy,
                      LAMBDA energy : <<"e",":">> \o energy_as_str(energy))
         \o component(task.due_at,
                      LAMBDA due_at : <<"d","u","e",":">> \o format_ymd(due_at))
         \o component(task.defer_until,
                      LAMBDA defer_until :
                          <<"d","e","f","e","r",":">> \o format_ymd(defer_until))
         \o component(non_empty(task.waiting_on),
                      LAMBDA waiting_on : <<"w","a","i","t",":">> \o waiting_on),
         <<" ">>)

\* the views of the tabs App::new builds, by tab_index
TuiTabs ==
    <<None, Some("inbox"), Some("next"), Some("waiting"), Some("scheduled"),
      Some("someday"), Some("projects"), Some("done")>>

\* App::new before its first refresh
App_new ==
    [kind |-> "tui", tab_index |-> 0, tasks |-> <<>>, showing_projects |-> FALSE,
     selected |-> 0, input_mode |-> "Normal", input |-> <<>>, suggestions |-> <<>>,
     suggestion_index |-> 0, status |-> None, editing_task_id |-> None,
     confirm_choice |-> "No", should_quit |-> FALSE]

\* App::current_view
current_view(a) == TuiTabs[a.tab_index + 1]

\* the task lists Database::fetch_tasks may hand to App::refresh (none on the
\* Projects tab, whose items are project summaries)
fetched(rows, a) == {s.tasks : s \in service_list(rows, for_view(current_view(a)))}

\* App::refresh, on the tasks the database returned
refresh(a, shown) ==
    [a EXCEPT !.tasks = shown,
              !.showing_projects = (current_view(a) = Some("projects")),
              !.selected = IF shown = <<>> THEN 0
                           ELSE IF a.selected >= Len(shown) THEN Len(shown) - 1
                           ELSE a.selected]

\* App::set_status_info and App::set_status_error
set_status_info(a) == [a EXCEPT !.status = Some("Info")]

set_status_error(a) == [a EXCEPT !.status = Some("Error")]

\* what a handler leaves behind: the app, the rows of the store, whether it
\* ended in App::refresh, the id select_task_by_id looks for afterwards, and
\* the call of edit_task_with_text it makes
kept(a, rows) ==
    [app |-> a, rows |-> rows, refresh |-> FALSE, select |-> None, edit |-> None]

reloaded(a, rows) ==
    [app |-> a, rows |-> rows, refresh |-> TRUE, select |-> None, edit |-> None]

editing(a, rows, id, text) ==
    [app |-> a, rows |-> rows, refresh |-> FALSE, select |-> None,
     edit |-> Some([id |-> id, text |-> text])]

\* the rest of a handler, which touches neither the store nor the task list
and_then(outcome, rest(_)) == [outcome EXCEPT !.app = rest(@)]

\* App::select_task_by_id
select_task_by_id(a, id) ==
    IF position(a.tasks, id) # 0
    THEN [a EXCEPT !.selected = position(a.tasks, id) - 1]
    ELSE a

\* the id of the selected row
selected_id(a) == a.tasks[a.selected + 1].id

\* the id a text names: ids are the decimal numbers from 1, 0 stands for a
\* text that names none
task_id(word) ==
    IF word # <<>> /\ AllDigits(word) /\ to_string(DigitsValue(word, 0)) = word
    THEN DigitsValue(word, 0)
    ELSE 0

\* App::select_next and App::select_prev
select_next(a) ==
    IF a.tasks = <<>> THEN a
    ELSE [a EXCEPT !.selected = Min(@ + 1, Len(a.tasks) - 1)]

select_prev(a) ==
    IF a.tasks = <<>> THEN a
    ELSE [a EXCEPT !.selected = IF @ > 0 THEN @ - 1 ELSE @]

\* App::next_tab and App::prev_tab, before their refresh
next_tab(a) == [a EXCEPT !.tab_index = (@ + 1) % Len(TuiTabs)]

prev_tab(a) == [a EXCEPT !.tab_index = IF @ = 0 THEN Len(TuiTabs) - 1 ELSE @ - 1]

\* App::begin_edit_with_task
begin_edit_with_task(a, task) ==
    set_status_info([a EXCEPT !.input = compose_task_capture(task),
                              !.input_mode = "Edit",
                              !.editing_task_id = Some(task.id)])

\* App::start_edit_current
start_edit_current(a) ==
    IF a.showing_projects THEN set_status_info(a)
    ELSE IF a.tasks = <<>> THEN set_status_info(a)
    ELSE begin_edit_with_task(a, a.tasks[a.selected + 1])

\* App::start_edit_by_id
start_edit_by_id(a, rows, id) ==
    IF position(a.tasks, id) # 0
    THEN begin_edit_with_task(select_task_by_id(a, id),
                              a.tasks[position(a.tasks, id)])
    ELSE IF Present(rows, id) THEN begin_edit_with_task(a, TaskOf(rows, id))
    ELSE set_status_error(a)

\* App::mark_next, mark_someday, mark_inbox and mark_done: the database call
\* on the selected row, then a refresh
mark_selected(a, rows, t, mark(_, _, _)) ==
    IF a.tasks = <<>> THEN kept(set_status_info(a), rows)
    ELSE reloaded(set_status_info(a), mark(rows, {selected_id(a)}, t))

\* App::show_selected_details
show_selected_details(a) ==
    IF a.showing_projects \/ a.tasks = <<>> THEN set_status_info(a)
    ELSE set_status_info([a EXCEPT !.input_mode = "Inspect"])

\* App::show_help_overlay
show_help_overlay(a) == set_status_info([a EXCEPT !.input_mode = "Help"])

\* a prompt that keeps the choice of the last confirmation
prompt_delete_keeps_choice(a) ==
    IF a.tasks = <<>> THEN set_status_info(a)
    ELSE set_status_info([a EXCEPT !.input_mode = "ConfirmDelete"])

\* App::prompt_delete
prompt_delete(a) ==
    IF a.tasks = <<>> THEN set_status_info(a)
    ELSE set_status_info([a EXCEPT !.confirm_choice = "No",
                                   !.input_mode = "ConfirmDelete"])

\* App::perform_delete
perform_delete(a, rows) ==
    IF a.tasks = <<>> THEN kept(set_status_info(a), rows)
    ELSE reloaded(set_status_info(a), delete_tasks(rows, {selected_id(a)}))

\* the task edit_task_with_text hands to Database::update_task
edited_task(parsed, existing) ==
    [parsed EXCEPT
        !.notes = OrElse(parsed.notes, existing.notes),
        !.areas = IF parsed.areas = <<>> THEN existing.areas ELSE parsed.areas,
        !.repeat = OrElse(parsed.repeat, existing.repeat),
        !.status = IF IsSome(parsed.waiting_on) THEN "waiting"
                   ELSE IF existing.status = "waiting" THEN "inbox"
                   ELSE existing.status]

\* App::edit_task_with_text once the text is parsed
edit_task_with_parsed(a, rows, t, id, parsed) ==
    IF ~IsOk(parsed) THEN kept(set_status_error(a), rows)
    ELSE IF ~Present(rows, id) THEN kept(set_status_error(a), rows)
    ELSE [app |-> set_status_info(a),
          rows |-> update_task(rows, id, edited_task(Unwrap(parsed), rows[id]), t),
          refresh |-> TRUE,
          select |-> Some(id),
          edit |-> None]

\* App::edit_task_with_text
edit_task_with_text(a, rows, t, id, text) ==
    IF split_whitespace(text) = <<>> THEN kept(set_status_error(a), rows)
    ELSE edit_task_with_parsed(a, rows, t, id,
                               parse_capture(Input(split_whitespace(text)), t))

\* App::apply_edit; edit_task_with_text is left to make
apply_edit(a, rows) ==
    IF a.editing_task_id = None THEN kept(set_status_error(a), rows)
    ELSE IF trim(a.input) = <<>> THEN kept(set_status_error(a), rows)
    ELSE editing([a EXCEPT !.input = <<>>, !.editing_task_id = None,
                           !.input_mode = "Normal"],
                 rows, Unwrap(a.editing_task_id), trim(a.input))

\* App::cancel_edit
cancel_edit(a) ==
    [a EXCEPT !.editing_task_id = None, !.input = <<>>, !.input_mode = "Normal",
              !.status = None]

\* App::finish_command
finish_command(a) == [a EXCEPT !.input = <<>>, !.input_mode = "Normal"]

\* the fills of the base suggestions; /delete carries the selected id when a
\* task is selected
base_suggestions(a) ==
    << <<"/","h","e","l","p">>,
       IF ~a.showing_projects /\ a.tasks # <<>>
       THEN <<"/","d","e","l","e","t","e"," ">> \o to_string(selected_id(a))
       ELSE <<"/","d","e","l","e","t","e"," ">>,
       <<"/","f","i","l","t","e","r">>,
       <<"/","r","e","f","r","e","s","h">>,
       <<"/","v","i","e","w"," ">>,
       <<"/","q","u","i","t">> >>

\* the view names /view completes
ViewNames ==
    << <<"a","l","l">>, <<"i","n","b","o","x">>, <<"n","e","x","t">>,
       <<"w","a","i","t","i","n","g">>, <<"s","c","h","e","d","u","l","e","d">>,
       <<"s","o","m","e","d","a","y">>, <<"p","r","o","j","e","c","t","s">>,
       <<"d","o","n","e">> >>

\* the suggestion of /done, /delete and /edit once something follows the
\* command word
id_suggestion(a, rest, command, tail) ==
    IF ~a.showing_projects /\ a.tasks # <<>> /\ trim(rest) = <<>>
    THEN << command \o <<" ">> \o to_string(selected_id(a)) \o tail >>
    ELSE << command \o <<" ">> >>

\* build_command_suggestions once the input is split into its first word and
\* the rest; the fills, without the labels
suggestions_for(a, first, rest) ==
    IF rest = <<>>
    THEN (IF first = <<>> THEN base_suggestions(a)
          ELSE SelectSeq(base_suggestions(a),
                         LAMBDA fill : starts_with(Tail(fill), first)))
    ELSE IF first \in {<<"v","i","e","w">>, <<"t","a","b">>}
    THEN [i \in 1..Len(SelectSeq(ViewNames, LAMBDA name :
                          starts_with(name, to_ascii_lowercase(trim(rest))))) |->
             <<"/","v","i","e","w"," ">>
                \o SelectSeq(ViewNames, LAMBDA name :
                       starts_with(name, to_ascii_lowercase(trim(rest))))[i]]
    ELSE IF first = <<"a","d","d">>
    THEN << <<"/","a","d","d"," ">> \o trim(rest) >>
    ELSE IF first = <<"d","o","n","e">>
    THEN id_suggestion(a, rest, <<"/","d","o","n","e">>, <<>>)
    ELSE IF first \in {<<"d","e","l","e","t","e">>, <<"d","e","l">>, <<"r","m">>}
    THEN id_suggestion(a, rest, <<"/","d","e","l","e","t","e">>, <<>>)
    ELSE IF first = <<"e","d","i","t">>
    THEN id_suggestion(a, rest, <<"/","e","d","i","t">>, <<" ">>)
    ELSE IF first = <<"f","i","l","t","e","r">>
    THEN (IF starts_with(<<"c","l","e","a","r">>, to_ascii_lowercase(trim(rest)))
          THEN << <<"/","f","i","l","t","e","r"," ","c","l","e","a","r">> >>
          ELSE << <<"/","f","i","l","t","e","r">> >>)
    ELSE <<>>

\* the first word of a text and the other words joined by one space
first_word(text) ==
    IF split_whitespace(text) = <<>> THEN <<>> ELSE split_whitespace(text)[1]

rest_words(text) ==
    IF split_whitespace(text) = <<>> THEN <<>>
    ELSE join(Tail(split_whitespace(text)), <<" ">>)

\* build_command_suggestions
build_command_suggestions(a) ==
    IF ~starts_with(a.input, <<"/">>) THEN <<>>
    ELSE suggestions_for(a, to_ascii_lowercase(first_word(Tail(a.input))),
                         rest_words(Tail(a.input)))

\* App::update_command_suggestions
update_command_suggestions(a) ==
    [a EXCEPT !.suggestions = build_command_suggestions(a),
              !.suggestion_index =
                  IF @ >= Len(build_command_suggestions(a)) THEN 0 ELSE @]

\* App::accept_suggestion
accept_suggestion(a) ==
    IF a.suggestion_index < Len(a.suggestions)
    THEN update_command_suggestions(
            [a EXCEPT !.input = a.suggestions[a.suggestion_index + 1]])
    ELSE a

\* the tab_index /view gives a view name
view_index(name) ==
    IF \E i \in 1..Len(ViewNames) : ViewNames[i] = name
    THEN Some((CHOOSE i \in 1..Len(ViewNames) : ViewNames[i] = name) - 1)
    ELSE None

\* the branches of App::run_command on the command word and its arguments;
\* every branch but /edit falls through to finish_command; /edit with an id
\* and a text leaves edit_task_with_text to make
run_words(a, rows, t, cmd, args) ==
    IF cmd \in {<<"h","e","l","p">>, <<"h">>}
    THEN kept(finish_command(set_status_info(a)), rows)
    ELSE IF cmd = <<"n","e","x","t">>
    THEN and_then(IF args # <<>>
                  THEN reloaded(set_status_info(a),
                                mark_next(rows, {task_id(args[1])}, t))
                  ELSE mark_selected(a, rows, t, mark_next),
                  finish_command)
    ELSE IF cmd = <<"d","o","n","e">>
    THEN and_then(IF args # <<>>
                  THEN reloaded(set_status_info(a),
                                mark_done(rows, {task_id(args[1])}, t))
                  ELSE mark_selected(a, rows, t, mark_done),
                  finish_command)
    ELSE IF cmd \in {<<"d","e","l","e","t","e">>, <<"d","e","l">>, <<"r","m">>}
    THEN (IF args # <<>>
          THEN reloaded(finish_command(set_status_info(a)),
                        delete_tasks(rows, {task_id(args[1])}))
          ELSE kept(finish_command(prompt_delete(a)), rows))
    ELSE IF cmd = <<"e","d","i","t">>
    THEN (IF args = <<>> THEN kept(finish_command(start_edit_current(a)), rows)
          ELSE IF Len(args) = 1
          THEN kept(finish_command(start_edit_by_id(a, rows, task_id(args[1]))), rows)
          ELSE editing(finish_command(a), rows, task_id(args[1]),
                       join(Tail(args), <<" ">>)))
    ELSE IF cmd \in {<<"r","e","f","r","e","s","h">>, <<"r">>}
    THEN reloaded(finish_command(set_status_info(a)), rows)
    ELSE IF cmd \in {<<"q","u","i","t">>, <<"q">>, <<"e","x","i","t">>}
    THEN kept(finish_command([a EXCEPT !.should_quit = TRUE]), rows)
    ELSE IF cmd \in {<<"v","i","e","w">>, <<"t","a","b">>}
    THEN (IF args = <<>> THEN kept(finish_command(set_status_error(a)), rows)
          ELSE IF view_index(to_ascii_lowercase(args[1])) = None
          THEN kept(finish_command(set_status_error(a)), rows)
          ELSE reloaded(finish_command(
                   [a EXCEPT !.tab_index =
                       Unwrap(view_index(to_ascii_lowercase(args[1])))]), rows))
    ELSE kept(finish_command(set_status_error(a)), rows)

\* App::run_command; /add and /filter are not among the commands typed
run_command(a, rows, t) ==
    IF ~starts_with(trim(a.input), <<"/">>) THEN kept(set_status_error(a), rows)
    ELSE IF split_whitespace(Tail(trim(a.input))) = <<>>
    THEN kept(set_status_error(a), rows)
    ELSE run_words(a, rows, t,
                   to_ascii_lowercase(split_whitespace(Tail(trim(a.input)))[1]),
                   Tail(split_whitespace(Tail(trim(a.input)))))

\* the keys with a name; every other key is KeyCode::Char of its character
NamedKeys ==
    {"Enter", "Esc", "Backspace", "Delete", "Tab", "BackTab", "Left", "Right",
     "Up", "Down", "Home", "End"}

\* App::handle_normal_mode: NormalAction::from_event, then
\* execute_normal_action
handle_normal_mode(a, rows, t, key) ==
    CASE key = "q" -> kept([a EXCEPT !.should_quit = TRUE], rows)
      [] key = "e" -> kept(start_edit_current(a), rows)
      [] key = "i" -> IF a.showing_projects THEN kept(set_status_info(a), rows)
                      ELSE mark_selected(a, rows, t, mark_inbox)
      [] key = "s" -> IF a.showing_projects THEN kept(set_status_info(a), rows)
                      ELSE mark_selected(a, rows, t, mark_someday)
      [] key = "r" -> reloaded(set_status_info(a), rows)
      [] key = "h" -> kept(show_help_overlay(a), rows)
      [] key = "/" -> kept(set_status_info(update_command_suggestions(
                              [a EXCEPT !.input_mode = "Command", !.input = <<"/">>])),
                           rows)
      [] key = "n" -> IF a.showing_projects THEN kept(set_status_info(a), rows)
                      ELSE mark_selected(a, rows, t, mark_next)
      [] key = "d" -> IF a.showing_projects THEN kept(set_status_info(a), rows)
                      ELSE mark_selected(a, rows, t, mark_done)
      [] key \in {"x", "Delete"} ->
                      IF a.showing_projects THEN kept(set_status_info(a), rows)
                      ELSE kept(prompt_delete(a), rows)
      [] key \in {"j", "Down"} -> kept(select_next(a), rows)
      [] key \in {"k", "Up"} -> kept(select_prev(a), rows)
      [] key \in {"Left", "BackTab"} -> reloaded(prev_tab(a), rows)
      [] key \in {"l", "Right", "Tab"} -> reloaded(next_tab(a), rows)
      [] key = "Enter" -> kept(show_selected_details(a), rows)
      [] key = "Home" -> kept(IF a.tasks # <<>> THEN [a EXCEPT !.selected = 0] ELSE a,
                              rows)
      [] key = "End" -> kept(IF a.tasks # <<>>
                             THEN [a EXCEPT !.selected = Len(a.tasks) - 1] ELSE a,
                             rows)
      [] OTHER -> kept(a, rows)

\* App::handle_edit_mode; the cursor keys are not among the keys pressed
handle_edit_mode(a, rows, key) ==
    CASE key = "Enter" -> apply_edit(a, rows)
      [] key = "Esc" -> kept(cancel_edit(a), rows)
      [] key = "Backspace" ->
            kept([a EXCEPT !.input = SubSeq(@, 1, Len(@) - 1)], rows)
      [] key \notin NamedKeys -> kept([a EXCEPT !.input = Append(@, key)], rows)
      [] OTHER -> kept(a, rows)

\* App::handle_inspect_mode and App::handle_help_mode
handle_overlay_mode(a, key) ==
    IF key \in {"Esc", "Enter"}
    THEN [a EXCEPT !.input_mode = "Normal", !.status = None]
    ELSE a

\* ConfirmChoice::toggle
toggle(choice) == IF choice = "Yes" THEN "No" ELSE "Yes"

\* App::handle_confirm_delete_mode
handle_confirm_delete_mode(a, rows, key) ==
    CASE key = "Esc" -> kept(set_status_info([a EXCEPT !.input_mode = "Normal"]), rows)
      [] key \in {"Left", "Right", " "} ->
            kept([a EXCEPT !.confirm_choice = toggle(@)], rows)
      [] key = "Enter" ->
            and_then(IF a.confirm_choice = "Yes" THEN perform_delete(a, rows)
                     ELSE kept(set_status_info(a), rows),
                     LAMBDA b : [b EXCEPT !.input_mode = "Normal"])
      [] OTHER -> kept(a, rows)

\* App::handle_command_mode
handle_command_mode(a, rows, t, key) ==
    CASE key = "Enter" ->
            IF a.suggestion_index < Len(a.suggestions)
            THEN (IF ends_with(a.suggestions[a.suggestion_index + 1], <<" ">>)
                  THEN kept(accept_suggestion(a), rows)
                  ELSE run_command(
                          [a EXCEPT !.input = a.suggestions[a.suggestion_index + 1]],
                          rows, t))
            ELSE run_command(a, rows, t)
      [] key = "Esc" -> kept([a EXCEPT !.input_mode = "Normal", !.status = None], rows)
      [] key = "Backspace" ->
            kept(update_command_suggestions(
                    [a EXCEPT !.input = SubSeq(@, 1, Len(@) - 1)]), rows)
      [] key = "Delete" -> kept(update_command_suggestions(a), rows)
      [] key \in {"Tab", "Right"} -> kept(accept_suggestion(a), rows)
      [] key = "Up" ->
            kept(IF a.suggestions # <<>>
                 THEN [a EXCEPT !.suggestion_index =
                          IF @ = 0 THEN Len(a.suggestions) - 1 ELSE @ - 1]
                 ELSE a, rows)
      [] key = "Down" ->
            kept(IF a.suggestions # <<>>
                 THEN [a EXCEPT !.suggestion_index = (@ + 1) % Len(a.suggestions)]
                 ELSE a, rows)
      [] key \notin NamedKeys ->
            kept(update_command_suggestions([a EXCEPT !.input = Append(@, key)]), rows)
      [] OTHER -> kept(a, rows)

\* App::on_key
on_key(a, rows, t, key) ==
    CASE a.input_mode = "Normal" -> handle_normal_mode(a, rows, t, key)
      [] a.input_mode = "Command" -> handle_command_mode(a, rows, t, key)
      [] a.input_mode = "Edit" -> handle_edit_mode(a, rows, key)
      [] a.input_mode \in {"Inspect", "Help"} -> kept(handle_overlay_mode(a, key), rows)
      [] a.input_mode = "ConfirmDelete" -> handle_confirm_delete_mode(a, rows, key)

\* the longest title a stored task may get
MaxTitle == 4

\* the captures behind the tasks of the store: a plain task, one with an area,
\* one with every inline token, one that waits, one with a due date
TuiInputs ==
    { Input(<< <<"a">> >>),
      [Input(<< <<"a">> >>) EXCEPT !.areas = << <<"w">> >>],
      Input(<< <<"a">>, <<"+","x">>, <<"@","h">>, <<"#","t">>, <<"p",":","2">>,
               <<"t",":","5","m">>, <<"e",":","l","o","w">> >>),
      Input(<< <<"a">>, <<"w","a","i","t",":","b","o","b">> >>),
      Input(<< <<"a">>, <<"d","u","e",":","t","o","d","a","y">> >>) }

\* the stores the TUI may start on
TuiStores ==
    {capture_all(calls, n) :
        calls \in [1..MaxTuiTasks -> [input : TuiInputs, at : {Now0}]],
        n \in 0..MaxTuiTasks}

\* the commands typed into the palette
CommandTexts ==
    { <<"/","e","d","i","t">>, <<"/","e","d","i","t"," ","1">>, <<"/","r","m">>,
      <<"/","d","e","l","e","t","e">>, <<"/","n","e","x","t">>, <<"/","x">> }

\* the keys pressed outside the palette
TuiKeys ==
    {"e", "i", "s", "n", "d", "x", "Delete", "j", "k", "Tab", "BackTab", "Enter",
     "Esc", "Left", " ", "h", "r", "q"}

\* the keys pressed in and around the palette
PaletteKeys ==
    {"/", "Enter", "Esc", "Backspace", "Tab", "Up", "Down",
     "e", "d", "i", "t", "r", "m", "l", "n", "x", " ", "1"}

\* the keys the model presses in a mode: a text under edit is saved or dropped,
\* the palette gets the characters of CommandTexts, the list gets "/" when the
\* palette is under study
Pressed(keys, key) ==
    /\ key \in keys
    /\ app.input_mode = "Edit" => key \in {"Enter", "Esc"}
    /\ app.input_mode = "Command" /\ key \notin NamedKeys =>
          \E text \in CommandTexts :
              starts_with(text, Append(app.input, key))
    /\ app.input_mode = "Normal" /\ "/" \in keys => key \in {"/", "j"}

\* what the last step was: the key pressed
KeyStep(key) ==
    [op |-> "key", id |-> 0, ok |-> TRUE, pre |-> NoPre, out |-> [key |-> key]]

\* the TUI started on a store: App::new with its first refresh
InitTui ==
    \E rows \in TuiStores : \E shown \in fetched(rows, App_new) :
        /\ store = rows
        /\ next_id = Cardinality(DOMAIN rows) + 1
        /\ now = Now0
        /\ app = refresh(App_new, shown)
        /\ last = KeyStep("")

\* the app after a handler: the refresh it ended in took the rows shown
settled(r, shown) ==
    IF ~r.refresh THEN r.app
    ELSE IF IsSome(r.select)
    THEN select_task_by_id(refresh(r.app, shown), Unwrap(r.select))
    ELSE refresh(r.app, shown)

\* the handler with the call of edit_task_with_text it left to make
with_edit(r, t) ==
    IF IsSome(r.edit)
    THEN edit_task_with_text(r.app, r.rows, t, Unwrap(r.edit).id, Unwrap(r.edit).text)
    ELSE r

\* App::on_key on one key event
OnKey(keys, key) ==
    /\ app.kind = "tui"
    /\ ~app.should_quit
    /\ Pressed(keys, key)
    /\ \E r \in {with_edit(on_key(app, store, now, key), now)} :
          /\ \A id \in DOMAIN r.rows : Len(r.rows[id].title) <= MaxTitle
          /\ \E shown \in IF r.refresh THEN fetched(r.rows, r.app) ELSE {<<>>} :
                app' = settled(r, shown)
          /\ store' = r.rows
    /\ last' = KeyStep(key)
    /\ UNCHANGED <<next_id, now>>

\* the list, the overlays, the edit line and the delete confirmation
NextTui == \E key \in TuiKeys : OnKey(TuiKeys, key)

SpecTui == InitTui /\ [][NextTui]_vars

\* the command palette
NextPalette == \E key \in PaletteKeys : OnKey(PaletteKeys, key)

SpecPalette == InitTui /\ [][NextPalette]_vars

(***************************************************************************)
(* Properties                                                              *)
(***************************************************************************)
MutatingOps ==
    {"mark_done", "mark_next", "mark_someday", "mark_inbox", "defer_until",
     "rename_task", "update_project", "update_contexts", "update_tags",
     "update_priority", "update_task"}

FieldEdits ==
    {"rename_task", "update_project", "update_contexts", "update_tags", "update_priority"}

\* the last operation changed the row last.id, which is still stored
Touched == last.ok /\ Present(store, last.id)

\* C1: every stored task has completed_at set if and only if its status is Done.
C1_CompletedIffDone ==
    \A id \in DOMAIN store : IsSome(store[id].completed_at) <=> store[id].status = "done"

\* C2: mark_done sets completed_at to the current time when it was unset, and
\* leaves the completed_at of a task that was already Done as it was.
C2_MarkDoneIdempotent ==
    (last.op = "mark_done" /\ Touched) =>
        IF last.pre.status = "done" /\ IsSome(last.pre.completed_at)
        THEN store[last.id].completed_at = last.pre.completed_at
        ELSE IsSome(last.pre.completed_at) \/ store[last.id].completed_at = Some(now)

\* C3: an operation that leaves the task in a status other than Done leaves it
\* with completed_at unset, whatever completed_at was before.
C3_NonDoneClearsCompleted ==
    (last.op \in MutatingOps /\ Touched /\ store[last.id].status # "done") =>
        IsNone(store[last.id].completed_at)

\* C3 witness: a task that had completed_at set was moved out of Done
C3_Witness ==
    /\ last.op \in {"mark_inbox", "update_task"}
    /\ Touched
    /\ IsSome(last.pre.completed_at)
    /\ store[last.id].status # "done"
    /\ IsNone(store[last.id].completed_at)

C5_FieldEditsKeepStatus ==
    (last.op \in FieldEdits /\ Touched) => store[last.id].status = last.pre.status

\* C5 witness: a field edit ran on a task that is not in the default status
C5_Witness ==
    /\ last.op \in FieldEdits
    /\ Touched
    /\ last.pre.status \in {"done", "waiting", "canceled"}

\* C6: a capture with an input that is rejected (no text, no title, unknown energy,
\* malformed p:/t:/e:, bad date inline or structured) inserts nothing; the store
\* changes under a capture only when the capture succeeded.
C6_FailedCaptureWritesNothing ==
    [][last'.op = "capture" =>
          /\ \A input \in BadInputs :
                Capture(input) => (~last'.ok /\ store' = store /\ next_id' = next_id)
          /\ store' # store => last'.ok]_vars

\* C6 witness: a capture was rejected while the store held a task
C6_Witness == last.op = "capture" /\ ~last.ok /\ DOMAIN store # {}

\* the status each mark operation moves to
MarkTarget ==
    [mark_done |-> "done", mark_next |-> "next", mark_someday |-> "someday",
     mark_inbox |-> "inbox"]

\* C7: for an existing task in any status, mark_done, mark_next, mark_someday and
\* mark_inbox succeed and leave the task in the operation's target status.
C7_TransitionsUnguarded ==
    (last.op \in DOMAIN MarkTarget /\ last.pre.status \in Statuses) =>
        /\ last.ok
        /\ Present(store, last.id)
        /\ store[last.id].status = MarkTarget[last.op]

\* C7 witness: a Done task was moved back to Inbox
C7_Witness ==
    /\ last.op = "mark_inbox"
    /\ last.pre.status = "done"
    /\ Touched
    /\ store[last.id].status = "inbox"

StatusViews == {"inbox", "next", "waiting", "someday", "done"}

\* C8: listing with the defaults of a status view returns exactly the stored
\* tasks in that status, and listing with no view exactly those neither Done
\* nor Canceled.
C8_ListingByStatus ==
    last.op = "list" =>
        LET view == last.out.filters.view
            ids  == Range(last.out.tasks)
        IN /\ (IsSome(view) /\ Unwrap(view) \in StatusViews) =>
                  ids = {id \in DOMAIN store : store[id].status = Unwrap(view)}
           /\ IsNone(view) =>
                  ids = {id \in DOMAIN store : store[id].status \notin {"done", "canceled"}}

\* C8 witness: the Done view listed a stored task
C8_Witness ==
    /\ last.op = "list"
    /\ last.out.filters.view = Some("done")
    /\ last.out.tasks # <<>>

\* C9: the Scheduled view lists exactly the tasks that are Scheduled, or Inbox or
\* Next with due_at or defer_until set.
C9_ScheduledView ==
    (last.op = "list" /\ last.out.filters.view = Some("scheduled")) =>
        Range(last.out.tasks) =
            {id \in DOMAIN store :
                \/ store[id].status = "scheduled"
                \/ /\ store[id].status \in {"inbox", "next"}
                   /\ (IsSome(store[id].due_at) \/ IsSome(store[id].defer_until))}

\* C9 witness: the Scheduled view listed an Inbox or Next task with a date
C9_Witness ==
    /\ last.op = "list"
    /\ last.out.filters.view = Some("scheduled")
    /\ \E id \in Range(last.out.tasks) : store[id].status \in {"inbox", "next"}

\* the defaults of each view, as a table
DefaultsTable(view) ==
    [status |->
        IF IsSome(view) /\ Unwrap(view) \in StatusViews THEN view ELSE None,
     include_done |-> (view = Some("done")),
     sort |->
        IF IsNone(view) THEN "due"
        ELSE IF Unwrap(view) \in {"inbox", "waiting", "done"} THEN "created"
        ELSE IF Unwrap(view) = "next" THEN "due"
        ELSE IF Unwrap(view) = "someday" THEN "priority"
        ELSE IF Unwrap(view) = "scheduled" THEN "due"
        ELSE "unspecified"]

\* C10: the filters for_view gives a view are the defaults of the table: status,
\* sort and include_done per view, reverse false, every other criterion empty.
C10_ForViewDefaults ==
    last.op = "list" =>
        LET f == last.out.filters
            d == DefaultsTable(f.view)
        IN /\ f.status = d.status
           /\ f.include_done = d.include_done
           /\ d.sort # "unspecified" => f.sort = d.sort
           /\ f.reverse = FALSE
           /\ f.project = None /\ f.contexts = <<>> /\ f.tags = <<>>
           /\ f.due_before = None /\ f.defer_after = None /\ f.time_max = None
           /\ f.energy = None /\ f.priority_min = None

\* C10 witness: a listing was made with the defaults of the Done view
C10_Witness ==
    /\ last.op = "list"
    /\ last.out.filters.view = Some("done")
    /\ last.out.filters.sort = "created"
    /\ last.out.filters.include_done

\* the rank of a status in the unscoped Due chain
RankTable == [next |-> 0, scheduled |-> 1, waiting |-> 2, inbox |-> 3, someday |-> 4]

RankOf(status) == IF status \in DOMAIN RankTable THEN RankTable[status] ELSE 5

\* row a may stand before row b in the unscoped Due chain
DueChainOrdered(a, b) ==
    \/ RankOf(a.status) < RankOf(b.status)
    \/ /\ RankOf(a.status) = RankOf(b.status)
       /\ \/ IsSome(a.due_at) /\ IsNone(b.due_at)
          \/ /\ IsSome(a.due_at) /\ IsSome(b.due_at)
             /\ Unwrap(a.due_at) < Unwrap(b.due_at)
          \/ /\ a.due_at = b.due_at
             /\ \/ a.priority > b.priority
                \/ a.priority = b.priority /\ a.created_at <= b.created_at

Flip(filters) == [filters EXCEPT !.reverse = ~@]

\* the same ORDER BY terms, each in the other direction
Flipped(keys) == [i \in DOMAIN keys |-> Key(keys[i].key, ~keys[i].desc)]

Reverse(seq) == [i \in 1..Len(seq) |-> seq[Len(seq) + 1 - i]]

\* C12: in each of the four sort chains reverse = true compares the same keys
\* with every direction flipped; when the chain orders the listed tasks strictly,
\* the listing in the other direction is the same listing in reverse sequence,
\* and flipping the direction twice gives the original filters and order.
C12_ReverseFlipsChain ==
    (last.op = "list" /\ last.out.filters.view # Some("projects")) =>
        /\ build_order_clause(Flip(last.out.filters)) =
               Flipped(build_order_clause(last.out.filters))
        /\ fetch_tasks(store, last.out.filters) = {last.out.tasks} =>
               fetch_tasks(store, Flip(last.out.filters)) = {Reverse(last.out.tasks)}
        /\ fetch_tasks(store, Flip(Flip(last.out.filters))) =
               fetch_tasks(store, last.out.filters)

\* C12 witness: a reversed listing, in the Due chain scoped to a view, of two
\* tasks the chain orders strictly
C12_Witness ==
    /\ last.op = "list"
    /\ last.out.filters.view = Some("inbox")
    /\ last.out.filters.sort = "due"
    /\ last.out.filters.reverse
    /\ Len(last.out.tasks) = 2
    /\ fetch_tasks(store, last.out.filters) = {last.out.tasks}

\* C13: the listing order is determined by the store and the ListFilters alone:
\* the active sort chain orders any two matching tasks strictly, so the sequence
\* a listing returned is the only one the query can return.
C13_ListingDetermined ==
    (last.op = "list" /\ last.out.filters.view # Some("projects")) =>
        /\ \A i, j \in 1..Len(last.out.tasks) :
              i < j => sorts_before(store[last.out.tasks[i]], store[last.out.tasks[j]],
                                    build_order_clause(last.out.filters))
        /\ fetch_tasks(store, last.out.filters) = {last.out.tasks}

\* the stored tasks of a project, under the status filter when there is one
ProjectTasks(name, status) ==
    {id \in DOMAIN store : /\ store[id].project = Some(name)
                           /\ IsSome(status) => store[id].status = Unwrap(status)}

\* the summary the claim describes for a project
SummaryOf(name, status) ==
    [project |-> name,
     total |-> Cardinality(ProjectTasks(name, status)),
     next_actions |-> Cardinality({id \in ProjectTasks(name, status) :
                                      store[id].status = "next"}),
     waiting |-> Cardinality({id \in ProjectTasks(name, status) :
                                 store[id].status = "waiting"}),
     someday |-> Cardinality({id \in ProjectTasks(name, status) :
                                 store[id].status = "someday"})]

\* C14: the Projects view has exactly one summary per distinct non-empty project
\* of the stored tasks (of those with the explicit status, when one is given),
\* sorted by name ascending, with total, next_actions, waiting and someday
\* counting those tasks; tasks with no project or an empty one are not counted.
C14_ProjectSummaries ==
    (last.op = "list" /\ last.out.filters.view = Some("projects")) =>
        /\ {last.out.projects[i].project : i \in 1..Len(last.out.projects)} =
              {name \in {Unwrap(store[id].project) :
                            id \in {k \in DOMAIN store : IsSome(store[k].project)}} :
                  name # <<>> /\ ProjectTasks(name, last.out.filters.status) # {}}
        /\ \A i, j \in 1..Len(last.out.projects) :
              i < j => str_lt(last.out.projects[i].project, last.out.projects[j].project)
        /\ \A i \in 1..Len(last.out.projects) :
              last.out.projects[i] =
                  SummaryOf(last.out.projects[i].project, last.out.filters.status)

\* C14 witness: the Projects view of a store with a task in a project and a task
\* with an empty project gave the one summary
C14_Witness ==
    /\ last.op = "list"
    /\ last.out.filters.view = Some("projects")
    /\ \E id \in DOMAIN store : store[id].project = Some(<<>>)
    /\ Len(last.out.projects) = 1
    /\ last.out.projects[1].total = 1

\* a parse of an input that succeeded
Parsed == last.op = "parse_capture" /\ last.ok

\* C15: on capture the status is the explicit status when one is supplied;
\* otherwise it is Waiting exactly when the resolved waiting_on (the structured
\* value if given, else the inline wait: value) is non-empty, and Inbox otherwise.
C15_StatusResolution ==
    Parsed =>
        Unwrap(last.out.parsed).status =
            IF IsSome(last.out.input.status) THEN Unwrap(last.out.input.status)
            ELSE IF /\ IsSome(Unwrap(last.out.parsed).waiting_on)
                    /\ Unwrap(Unwrap(last.out.parsed).waiting_on) # <<>>
                 THEN "waiting"
                 ELSE "inbox"

\* the prefixes of the key:value directive tokens
DirectivePrefixes ==
    { <<"d","u","e",":">>, <<"d","e","f","e","r",":">>, <<"t",":">>, <<"e",":">>,
      <<"p",":">>, <<"w","a","i","t",":">>, <<"s","i","n","c","e",":">> }

\* a token without its trailing punctuation reads as a directive
IsDirectivePiece(piece) ==
    \/ Len(piece) > 1 /\ piece[1] \in {"@", "+", "#"}
    \/ \E prefix \in DirectivePrefixes : starts_with(piece, prefix)

IsDirective(word) == IsDirectivePiece(strip_trailing_punctuation(word)[1])

HasTrailing(word) == IsSome(strip_trailing_punctuation(word)[2])

\* the whitespace-separated words of a text
WordsOf(text) == Range(split_whitespace(text))

\* the raw text of the parsed input
RawText == join(last.out.input.text, <<" ">>)

\* C16 as stated: for every capture input that parses successfully, the title
\* contains no recognized directive token.
C16_TitleHasNoDirective ==
    Parsed => \A word \in WordsOf(Unwrap(last.out.parsed).title) : ~IsDirective(word)

\* C16 amended: for every capture input that parses successfully and whose text
\* has a plain word or a directive token followed by punctuation, the title
\* contains no recognized directive token.
C16_TitleWordsHaveNoDirective ==
    (/\ Parsed
     /\ \E word \in WordsOf(RawText) : ~IsDirective(word) \/ HasTrailing(word)) =>
        \A word \in WordsOf(Unwrap(last.out.parsed).title) : ~IsDirective(word)

\* C16 witness: a text with a plain word and a directive token was parsed
C16_Witness ==
    /\ Parsed
    /\ \E word \in WordsOf(RawText) : ~IsDirective(word)
    /\ \E word \in WordsOf(RawText) : IsDirective(word)

\* the text is made of directive tokens only
DirectiveOnly == WordsOf(RawText) # {} /\ \A word \in WordsOf(RawText) : IsDirective(word)

Clamp(n) == IF n < 0 THEN 0 ELSE IF n > 3 THEN 3 ELSE n

\* the value of a p: token, if the word is one
PriorityValue(word) == strip_prefix(strip_trailing_punctuation(word)[1], <<"p",":">>)

\* the integers the p: tokens of the text give
PriorityNumbers ==
    {Unwrap(parse_signed(Unwrap(PriorityValue(word)))) :
        word \in {w \in WordsOf(RawText) :
                     /\ IsSome(PriorityValue(w))
                     /\ IsOk(parse_signed(Unwrap(PriorityValue(w))))}}

\* every key:value token of the text is a wait: token or a p: token with an
\* integer value
OnlyIntegerPriorities ==
    \A word \in WordsOf(RawText) :
        (\E prefix \in DirectivePrefixes :
            starts_with(strip_trailing_punctuation(word)[1], prefix)) =>
            \/ starts_with(strip_trailing_punctuation(word)[1], <<"w","a","i","t",":">>)
            \/ /\ IsSome(PriorityValue(word))
               /\ IsOk(parse_signed(Unwrap(PriorityValue(word))))

\* C18: priority is clamped, never rejected for being out of range: an inline
\* p:<n> and an explicit priority n give min(max(n, 0), 3) and the parse
\* succeeds for every integer n; an unknown energy label always fails.
C18_PriorityClamped ==
    last.op = "parse_capture" =>
        /\ (last.ok /\ IsSome(last.out.input.priority)) =>
              Unwrap(last.out.parsed).priority = Clamp(Unwrap(last.out.input.priority))
        /\ (/\ OnlyIntegerPriorities
            /\ IsNone(last.out.input.energy)
            /\ trim(RawText) # <<>>) =>
              /\ last.ok
              /\ (IsNone(last.out.input.priority) /\ Cardinality(PriorityNumbers) = 1) =>
                    \A n \in PriorityNumbers : Unwrap(last.out.parsed).priority = Clamp(n)
        /\ (/\ IsSome(last.out.input.energy)
            /\ to_ascii_lowercase(Unwrap(last.out.input.energy)) \notin
                  {<<"l","o","w">>, <<"m","e","d">>, <<"m","e","d","i","u","m">>,
                   <<"h","i","g","h">>}) => ~last.ok

\* a label list is lowercase and holds no value twice
Normalized(labels) ==
    /\ \A i \in 1..Len(labels) : labels[i] = to_ascii_lowercase(labels[i])
    /\ \A i, j \in 1..Len(labels) : i # j => labels[i] # labels[j]

\* C19: in every store state reachable through capture, update_contexts,
\* update_tags and update_task, the contexts, tags and areas of each task are
\* lowercase and hold no duplicate value.
C19_LabelsNormalized ==
    \A id \in DOMAIN store :
        /\ Normalized(store[id].contexts)
        /\ Normalized(store[id].tags)
        /\ Normalized(store[id].areas)

\* C20: every stored task has a non-empty title, and an operation that would
\* leave a task with an empty title is rejected and changes nothing.
C20_TitleNonEmpty == \A id \in DOMAIN store : store[id].title # <<>>

\* a weekday name was resolved
WeekdayResolved ==
    /\ last.op = "parse_date_spec"
    /\ IsSome(parse_weekday(to_ascii_lowercase(last.out.spec)))

\* the weekday of an instant and of a name, Monday = 0
WeekdayOf(t) == ((t \div MinutesPerDay) + 3) % 7

NamedWeekday == Unwrap(parse_weekday(to_ascii_lowercase(last.out.spec)))

\* the resolved instant is 09:00 on the named weekday, on a date after today and
\* at most 7 days ahead
NextOccurrence(t) ==
    /\ t % MinutesPerDay = 9 * 60
    /\ WeekdayOf(t) = NamedWeekday
    /\ t \div MinutesPerDay > now \div MinutesPerDay
    /\ t \div MinutesPerDay <= (now \div MinutesPerDay) + 7

StampingOps == {"mark_done", "mark_next", "mark_someday", "mark_inbox", "rename_task"}

\* C21: with a clock that never goes backwards, every stored task has
\* created_at <= updated_at after any sequence of operations: insert sets both to
\* the same instant, every mutation sets updated_at to the current time, and
\* none of them writes created_at or id.
C21_CreatedBeforeUpdated ==
    [][/\ now' >= now
       /\ \A id \in DOMAIN store' :
             /\ store'[id].created_at <= store'[id].updated_at
             /\ id \notin DOMAIN store =>
                   store'[id].created_at = now /\ store'[id].updated_at = now
       /\ \A id \in DOMAIN store :
             /\ id \in DOMAIN store'
             /\ store'[id].created_at = store[id].created_at
       /\ (last'.op \in StampingOps /\ last'.ok) =>
             store'[last'.id].updated_at = now]_vars

\* C21 witness: a task was written at a later instant than it was created
C21_Witness ==
    \E id \in DOMAIN store :
        /\ store[id].created_at < store[id].updated_at
        /\ last.op \in StampingOps

\* C24: in the desktop the capture panel and the command palette are never
\* open at the same time, whatever keys, toggles, palette actions and capture
\* completions came before
C24_PanelsExclusive == ~(app.capture.open /\ app.command_palette.open)

\* the palette was opened over a capture panel that held a text: the panel is
\* closed and still holds it
C24_Witness ==
    /\ app.command_palette.open
    /\ ~app.capture.open
    /\ app.capture.text # <<>>

\* C29: in the desktop at most one capture command is in flight at any time:
\* once a capture is dispatched, none is dispatched until its CaptureCompleted
\* has been handled
C29_OneCaptureInFlight == in_flight(app, "capture") <= 1

\* the ids of the tasks of a snapshot
IdsOf(snapshot) == {snapshot.tasks[i].id : i \in 1..Len(snapshot.tasks)}

\* the tabs that list tasks
TaskTabs == {"All", "Inbox", "Next", "Waiting", "Scheduled"}

\* this step asked for a mutation: one more is in flight, the last one
Dispatched == in_flight(app', "mutation") > in_flight(app, "mutation")

\* the active view shows what a listing of the store returns
Fresh ==
    /\ IsSome(app.views[app.active].snapshot)
    /\ Unwrap(app.views[app.active].snapshot)
           \in service_list(store, for_view(list_view(app.active)))

\* C27: right after an optimistic Promote, Complete, Move-to-Inbox or Defer on
\* a view that showed the listing of the store, the ids in the snapshot of the
\* active view are the ids the core listing of that view returns once the
\* mutation is applied to the store, on each of the tabs All, Inbox, Next,
\* Waiting and Scheduled
C27_OptimisticMatchesListing ==
    [][Dispatched /\ app.active \in TaskTabs /\ Fresh =>
          IdsOf(Unwrap(app'.views[app.active].snapshot))
             = fetch_tasks_ids(
                  mutation_call(store, app'.inflight[Len(app'.inflight)].kind, now),
                  for_view(list_view(app.active)))]_vars

\* a Complete of task id asked for on the active view is in flight and has not
\* failed
CompleteInFlight(id) ==
    \E i \in 1..Len(app.inflight) :
        /\ app.inflight[i].cmd = "mutation"
        /\ app.inflight[i].kind.label = "complete"
        /\ id \in app.inflight[i].kind.ids
        /\ app.inflight[i].tab = app.active
        /\ app.inflight[i].done => IsOk(app.inflight[i].result)

\* C28: while a Complete that has not failed is in flight and its task is
\* gone from the snapshot of the active view, a ViewLoaded does not bring the
\* task back into that snapshot
C28_StaleLoadKeepsRemoval ==
    [][\A id \in 1..MaxDeskTasks :
          (/\ last'.op = "ViewLoaded"
           /\ CompleteInFlight(id)
           /\ IsSome(app.views[app.active].snapshot)
           /\ id \notin IdsOf(Unwrap(app.views[app.active].snapshot)))
          => id \notin IdsOf(Unwrap(app'.views[app.active].snapshot))]_vars

\* the last message handled was the failure of a mutation
MutationFailed == last.op = "MutationFinished" /\ ~last.ok

\* this step handled the success of a mutation
MutationApplied == last'.op = "MutationFinished" /\ last'.ok

\* the last command handed to the runtime is a load of the active view
ReloadIssued(a) ==
    /\ a.inflight # <<>>
    /\ a.inflight[Len(a.inflight)].cmd = "load"
    /\ a.inflight[Len(a.inflight)].tab = a.active
    /\ ~a.inflight[Len(a.inflight)].done

C25_DeleteNeedsConfirmation ==
    [][/\ app.input_mode = "Normal" /\ last'.out.key \in {"x", "Delete"} =>
            /\ store' = store
            /\ app.tasks # <<>> /\ ~app.showing_projects =>
                   /\ app'.input_mode = "ConfirmDelete"
                   /\ app'.confirm_choice = "No"
       /\ app.input_mode = "ConfirmDelete" =>
            /\ store' # store => last'.out.key = "Enter" /\ app.confirm_choice = "Yes"
            /\ last'.out.key = "Enter" /\ app.confirm_choice = "Yes" =>
                   /\ store' = delete_tasks(store, {selected_id(app)})
                   /\ app'.input_mode = "Normal"
            /\ \/ last'.out.key = "Esc"
               \/ last'.out.key = "Enter" /\ app.confirm_choice = "No"
               => app'.input_mode = "Normal" /\ store' = store]_vars

\* the only task of the store was deleted by Enter on the choice Yes
C25_Witness ==
    /\ app.kind = "tui"
    /\ last.out.key = "Enter"
    /\ app.confirm_choice = "Yes"
    /\ app.input_mode = "Normal"
    /\ next_id > 1
    /\ DOMAIN store = {}

\* the words of the command Enter runs in the palette, without the slash; none
\* when Enter only takes a suggestion over or the input is no command
CommandRun ==
    IF app.kind # "tui" \/ app.input_mode # "Command" \/ last'.out.key # "Enter"
    THEN <<>>
    ELSE IF app.suggestion_index < Len(app.suggestions)
    THEN (IF ends_with(app.suggestions[app.suggestion_index + 1], <<" ">>) THEN <<>>
          ELSE split_whitespace(Tail(app.suggestions[app.suggestion_index + 1])))
    ELSE IF starts_with(trim(app.input), <<"/">>)
    THEN split_whitespace(Tail(trim(app.input)))
    ELSE <<>>

\* the app is on the edit line of a task, pre-filled from it
Editing(a, task) ==
    /\ a.input_mode = "Edit"
    /\ a.input = compose_task_capture(task)
    /\ a.editing_task_id = Some(task.id)

\* C26: when /edit returns, with a task selected, the app is in Edit mode with
\* the buffer pre-filled from the selected task and editing_task_id set; so
\* for /edit <id> and the task of that id; when /delete with no id returns,
\* with a task selected, the app is in ConfirmDelete mode
C26_CommandLeavesMode ==
    [][/\ CommandRun = << <<"e","d","i","t">> >>
             /\ app.tasks # <<>> /\ ~app.showing_projects
          => Editing(app', app.tasks[app.selected + 1])
       /\ Len(CommandRun) = 2 /\ CommandRun[1] = <<"e","d","i","t">>
             /\ Present(store, task_id(CommandRun[2]))
          => Editing(app', TaskOf(store, task_id(CommandRun[2])))
       /\ CommandRun \in { << <<"d","e","l","e","t","e">> >>, << <<"d","e","l">> >>,
                           << <<"r","m">> >> }
             /\ app.tasks # <<>>
          => app'.input_mode = "ConfirmDelete"]_vars

\* the fields of a task that the capture text of an edit carries
Content(row) ==
    [f \in {"title", "project", "areas", "contexts", "tags", "priority", "energy",
            "time_estimate", "waiting_on"} |-> row[f]]

\* Enter saves the edit line as begin_edit_with_task filled it
SavedUnmodified ==
    /\ app.kind = "tui"
    /\ app.input_mode = "Edit"
    /\ last'.out.key = "Enter"
    /\ IsSome(app.editing_task_id)
    /\ Present(store, Unwrap(app.editing_task_id))
    /\ app.input = compose_task_capture(TaskOf(store, Unwrap(app.editing_task_id)))

\* C30: saving the pre-filled edit line unmodified leaves title, project,
\* areas, contexts, tags, priority, energy, time_estimate and waiting_on of the
\* task as they were
C30_EditRoundTrip ==
    [][SavedUnmodified =>
          /\ Present(store', Unwrap(app.editing_task_id))
          /\ Content(store'[Unwrap(app.editing_task_id)])
                = Content(store[Unwrap(app.editing_task_id)])]_vars

====
